---- MODULE Spec2Model ----
(***************************************************************************)
(* Model of the codebase-intelligence server routes:                       *)
(*   POST /ingest    (src/app/api/ingest/route.ts and its batched          *)
(*                    revision src/unnamed/part_005)                       *)
(*   POST /summarize (src/app/api/summarize/route.ts)                      *)
(*   POST /chat      (src/app/api/chat/route.ts and its revision            *)
(*                    src/unnamed/part_008)                                *)
(* and of the namespace the UI components derive from the repository URL.  *)
(* Strings are sequences of one-character strings, so that the regular     *)
(* expressions and substring tests of the code are computed, not assumed.  *)
(***************************************************************************)
EXTENDS Integers, Sequences, FiniteSets, TLC

VARIABLES
  pure,              \* extractRepoName applied to one URL: [pc, url, name]
  variant,           \* which revision of the ingest route serves: "guard" | "batch"
                     \* | "fire" (src/unnamed/part_007, ingestion in the background);
                     \* "ids": the batched revision, ingestions of one repository;
                     \* "retry": route.ts, each request sent after the answer
                     \* to the one before;
                     \* "respond": the routes of the Responder with few inputs
  body,              \* body[r]: the request body of ingest request r
  pc,                \* pc[r]: position of request r in POST / ingestRepo
  repoName,          \* repoName[r]: const repoName of ingestRepo
  stats,             \* stats[r]: the result of describeIndexStats seen by r
  chunks,            \* chunks[r]: chunks.length after splitDocuments
  embeddingsList,    \* embeddingsList[r]: the embeddings pushed so far
  vectors,           \* vectors[r]: the records built by chunks.map
  i,                 \* i[r]: loop variable of the running batch loop
  successfulBatches, \* successfulBatches[r]
  issued,            \* issued[r]: the external calls r has issued, in order
  inflight,          \* inflight[r]: the calls of r not yet settled
  thrown,            \* thrown[r]: the Error ingestRepo threw, or NoError
  resp,              \* resp[r]: the NextResponse of r, or NoResp
  store,             \* the Pinecone index: a set of records [ns, id, chunk]
  now,               \* Date.now()
  sum,               \* the state of one POST /summarize request
  chat,              \* the state of one POST /chat request
  env,               \* process.env: the configuration values that are set
  cleanup,           \* the state of one run of the cleanup script
  processing,        \* the Home page with one ProcessingState instance
  chatUi             \* one ChatInterface instance

vars == <<pure, variant, body, pc, repoName, stats, chunks, embeddingsList,
          vectors, i, successfulBatches, issued, inflight, thrown, resp,
          store, now, sum, chat, env, cleanup, processing, chatUi>>

-----------------------------------------------------------------------------
(* Bounds of the model *)

\* ingest requests that may run concurrently against the guarded route
MaxReq == 2
\* ingest requests that may run concurrently against the batched route
MaxBatchReq == 1
\* chunks a repository splits into under the guarded route: 0..MaxChunks
MaxChunks == 2
\* upsert batches a repository may need under the batched route
MaxBatches == 2
\* milliseconds Date.now() may advance
MaxTime == 1
\* matches a store query returns in the model
MaxMatches == 3
\* messages the user sends through one ChatInterface
MaxSubmits == 2
\* chunks a streamed answer arrives in (words of a simulated stream)
MaxStreamChunks == 2

-----------------------------------------------------------------------------
(* Strings *)

HTTPS  == <<"h", "t", "t", "p", "s", ":", "/", "/">>
GITHUB == <<"g", "i", "t", "h", "u", "b", ".", "c", "o", "m">>
GITLAB == <<"g", "i", "t", "l", "a", "b", ".", "c", "o", "m">>
DOTGIT == <<".", "g", "i", "t">>
DEFAULT == <<"d", "e", "f", "a", "u", "l", "t">>
\* one UTF-16 code unit above \x7F (e with acute accent)
EACUTE == "U+00E9"

\* String.prototype.charCodeAt for the characters the inputs are built from
charCodeAt(c) ==
  CASE c = ":" -> 58  [] c = "/" -> 47  [] c = "." -> 46  [] c = "?" -> 63
    [] c = "a" -> 97  [] c = "b" -> 98  [] c = "c" -> 99  [] c = "d" -> 100
    [] c = "e" -> 101 [] c = "f" -> 102 [] c = "g" -> 103 [] c = "h" -> 104
    [] c = "i" -> 105 [] c = "l" -> 108 [] c = "m" -> 109 [] c = "o" -> 111
    [] c = "p" -> 112 [] c = "r" -> 114 [] c = "s" -> 115 [] c = "t" -> 116
    [] c = "u" -> 117 [] c = "x" -> 120
    [] c = EACUTE -> 233

StartsWith(s, p) == Len(p) <= Len(s) /\ SubSeq(s, 1, Len(p)) = p

EndsWith(s, p) == Len(p) <= Len(s) /\ SubSeq(s, Len(s) - Len(p) + 1, Len(s)) = p

\* String.prototype.includes
includes(s, sub) ==
  \E k \in 0..(Len(s) - Len(sub)) : SubSeq(s, k + 1, k + Len(sub)) = sub

\* /^[\x00-\x7F]*$/.test(s)
IsAsciiAlways(s) == TRUE
IsAscii(s) == \A k \in 1..Len(s) : charCodeAt(s[k]) \in 0..127

-----------------------------------------------------------------------------
(* extractRepoName: repoUrl.match(/\/([^/]+?)(\.git)?$/)                    *)

\* The regular expression matches at the "/" at position k with group 1
\* ending at position j: group 1 is one or more characters other than "/",
\* and what follows it up to the end of the string is ".git" or nothing.
RepoMatchAt(s, k, j) ==
  /\ s[k] = "/"
  /\ j > k
  /\ \A m \in (k + 1)..j : s[m] # "/"
  /\ SubSeq(s, j + 1, Len(s)) \in {DOTGIT, <<>>}

RepoMatchStarts(s) ==
  {k \in 1..Len(s) : \E j \in (k + 1)..Len(s) : RepoMatchAt(s, k, j)}

Min(S) == CHOOSE x \in S : \A y \in S : x <= y

\* A mutant of the regular expression: the group is greedy, /\/([^/]+)(\.git)?$/
extractRepoNameGreedy(repoUrl) ==
  LET starts == RepoMatchStarts(repoUrl) IN
  IF starts = {} THEN DEFAULT
  ELSE LET k == Min(starts) IN SubSeq(repoUrl, k + 1, Len(repoUrl))

\* The leftmost match; within it the lazy group takes the shortest end.
extractRepoName(repoUrl) ==
  LET starts == RepoMatchStarts(repoUrl) IN
  IF starts = {} THEN DEFAULT
  ELSE LET k == Min(starts)
           j == Min({e \in (k + 1)..Len(repoUrl) : RepoMatchAt(repoUrl, k, e)})
       IN SubSeq(repoUrl, k + 1, j)

-----------------------------------------------------------------------------
(* Request bodies of POST /ingest *)

Str(parts) == parts[1] \o parts[2] \o parts[3]

\* "https://github.com/o/r"
UrlR == Str(<<HTTPS, GITHUB, <<"/", "o", "/", "r">>>>)
\* "https://github.com/o/r.git"
UrlRGit == UrlR \o DOTGIT
\* "https://gitlab.com/o/r"
UrlLab == Str(<<HTTPS, GITLAB, <<"/", "o", "/", "r">>>>)
\* "https://github.com/o/r" followed by a non-ASCII character
UrlNonAscii == UrlR \o <<EACUTE>>
\* "github.com/o/r": contains github.com and is no URL
UrlNoScheme == Str(<<<<>>, GITHUB, <<"/", "o", "/", "r">>>>)

\* "https://gitlab.com/github.com/r": another host, "github.com" in the path
UrlLabGithub == Str(<<HTTPS, GITLAB, <<"/">> \o GITHUB \o <<"/", "r">>>>)

IngestUrls == {UrlR, UrlLab, UrlNonAscii, UrlNoScheme, UrlLabGithub}

\* the bodies offered to the batched revision carry fewer URLs
BatchUrls == {UrlR, UrlLab, UrlNonAscii}

IngestTokens == {<<"t">>, <<>>, <<"t", EACUTE>>}

\* json = FALSE: req.json() rejects. urlIsString = FALSE: repoUrl is absent
\* or is no string.
\* Every URL comes with the token "t"; every token comes with UrlR and UrlLab.
IngestBodies(urls) ==
  {[json |-> FALSE, urlIsString |-> FALSE, repoUrl |-> <<>>, token |-> <<>>]}
  \cup {[json |-> TRUE, urlIsString |-> FALSE, repoUrl |-> <<>>, token |-> <<"t">>]}
  \cup [json : {TRUE}, urlIsString : {TRUE}, repoUrl : urls, token : {<<"t">>}]
  \cup [json : {TRUE}, urlIsString : {TRUE}, repoUrl : {UrlR, UrlLab},
        token : IngestTokens]

NoBody == [json |-> FALSE, urlIsString |-> FALSE, repoUrl |-> <<>>, token |-> <<"-">>]

\* z.string().url(): the URL constructor accepts the string. Of the inputs of
\* the model, those that start with a scheme and name a host.
IsUrl(s) == StartsWith(s, HTTPS) /\ Len(s) > Len(HTTPS)

\* IngestRequestSchema.safeParse(body).success
IngestRequestSchemaNoIncludes(b) ==
  /\ b.urlIsString
  /\ IsUrl(b.repoUrl)
  /\ Len(b.token) >= 1

IngestRequestSchema(b) ==
  /\ b.urlIsString
  /\ IsUrl(b.repoUrl)
  /\ includes(b.repoUrl, GITHUB)
  /\ Len(b.token) >= 1

-----------------------------------------------------------------------------
(* Errors and responses of POST /ingest *)

NoError == [kind |-> "none"]
ErrUrlNonAscii == [kind |-> "Repository URL contains non-ASCII characters"]
ErrTokenNonAscii == [kind |-> "GitHub token contains non-ASCII characters"]
ErrNotGithub == [kind |-> "Invalid GitHub repository URL"]
ErrStats == [kind |-> "describeIndexStats rejected"]
ErrLoad == [kind |-> "Failed to load repository"]
ErrFromDocuments == [kind |-> "PineconeStore.fromDocuments rejected"]
ErrEmbedding == [kind |-> "Embedding generation failed"]
\* `Failed to upsert batch ${batchNum}/${totalBatches}: ...`
ErrUpsert(batchNum, totalBatches) ==
  [kind |-> "Failed to upsert batch", batchNum |-> batchNum,
   totalBatches |-> totalBatches]
ErrJson == [kind |-> "req.json() rejected"]
\* what a client constructor throws when it is given no API key
ErrConfiguration(key) == [kind |-> "configuration", key |-> key]
ErrIssues == [kind |-> "zod issues"]

NoResp == [status |-> 0]

ValidationFailed ==
  [status |-> 400, success |-> FALSE, message |-> "Validation failed",
   error |-> ErrIssues]

IngestionCompleted ==
  [status |-> 200, success |-> TRUE,
   message |-> "Ingestion completed successfully.", error |-> NoError]

\* the catch block without its {status: 500}: NextResponse.json answers 200
IngestionFailedNoStatus(e) ==
  [status |-> 200, success |-> FALSE, message |-> "Ingestion failed", error |-> e]

\* the answer of the revision that runs ingestRepo in the background
IngestionStarted ==
  [status |-> 200, success |-> TRUE,
   message |-> "Ingestion started. Processing repository in background.",
   error |-> NoError]

IngestionFailed(e) ==
  [status |-> 500, success |-> FALSE, message |-> "Ingestion failed", error |-> e]

FailedToStart(e) ==
  [status |-> 500, success |-> FALSE, message |-> "Failed to start ingestion",
   error |-> e]

-----------------------------------------------------------------------------
(* The vector store *)

\* index.namespace(ns).upsert(records): a record replaces the one of its id
Upsert(st, recs) ==
  {x \in st : ~ \E y \in recs : y.ns = x.ns /\ y.id = x.id} \cup recs

RecordCount(st, ns) == Cardinality({x \in st : x.ns = ns})

\* index.describeIndexStats(): the namespaces that hold records, with their
\* record counts. (Stats that named no namespace would hide every record.)
describeIndexStatsEmpty(st) ==
  [namespaces |-> [ns \in {} |-> [recordCount |-> 0]]]

describeIndexStats(st) ==
  [namespaces |-> [ns \in {x.ns : x \in st} |-> [recordCount |-> RecordCount(st, ns)]]]

\* stats.namespaces && stats.namespaces[repoName]
NamespaceExistsNever(st, name) == FALSE
NamespaceExists(st, name) == name \in DOMAIN st.namespaces

NoStats == [namespaces |-> <<>>, read |-> FALSE]

-----------------------------------------------------------------------------
(* The configuration: process.env *)

PINECONE_API_KEY == "PINECONE_API_KEY"
PINECONE_INDEX_NAME == "PINECONE_INDEX_NAME"
OPENAI_API_KEY == "OPENAI_API_KEY"

RequiredConfig == {PINECONE_API_KEY, PINECONE_INDEX_NAME, OPENAI_API_KEY}

\* process.env carries every required value
Configured == env = RequiredConfig

\* src/lib/pinecone.ts, evaluated when a module that imports it is loaded:
\* the error it throws, or NoError
pineconeModule(e) ==
  IF PINECONE_API_KEY \notin e THEN ErrConfiguration(PINECONE_API_KEY)
  ELSE IF PINECONE_INDEX_NAME \notin e THEN ErrConfiguration(PINECONE_INDEX_NAME)
  ELSE NoError

\* The module of the guarded ingest route imports no module that reads the
\* configuration: loading it throws nothing.
ingestModule(e) == NoError

-----------------------------------------------------------------------------
(* POST /ingest: state *)

Req == 1..MaxReq

\* the batched revision (src/unnamed/part_005) serves
Batched == variant \in {"batch", "ids"}

\* the revision that does not await ingestRepo (src/unnamed/part_007) serves
Background == variant = "fire"

\* the caller sends a request only after the one before was answered
Sequential == variant = "retry"

\* the requests the serving revision is given
Serving == IF variant = "batch" THEN {r \in Req : r <= MaxBatchReq} ELSE Req

embeddingBatchSize == 50
batchSize == 100

\* chunks.length: what loader.load() and splitDocuments give for a repository
ChunkCounts ==
  IF variant = "batch"
  THEN {0, 1, embeddingBatchSize + 1, MaxBatches * batchSize}
       \cup {k * batchSize + 1 : k \in 1..MaxBatches}
  ELSE IF variant = "ids" THEN {batchSize + 1}
  ELSE 0..MaxChunks

Call(op, batch) == [op |-> op, batch |-> batch]

\* Math.ceil(n / size)
Ceil(n, size) == (n + size - 1) \div size

MinOf(a, b) == IF a < b THEN a ELSE b

IngestIdle(v) ==
  /\ variant = v
  /\ body = [r \in Req |-> NoBody]
  /\ pc = [r \in Req |-> "idle"]
  /\ repoName = [r \in Req |-> <<>>]
  /\ stats = [r \in Req |-> NoStats]
  /\ chunks = [r \in Req |-> 0]
  /\ embeddingsList = [r \in Req |-> <<>>]
  /\ vectors = [r \in Req |-> <<>>]
  /\ i = [r \in Req |-> 0]
  /\ successfulBatches = [r \in Req |-> 0]
  /\ issued = [r \in Req |-> <<>>]
  /\ inflight = [r \in Req |-> {}]
  /\ thrown = [r \in Req |-> NoError]
  /\ resp = [r \in Req |-> NoResp]
  /\ now = 0

\* no request has arrived, and the index is empty
IngestInit(v) == IngestIdle(v) /\ store = {}

-----------------------------------------------------------------------------
(* POST /ingest: the handler up to the first external call of ingestRepo *)

\* the bodies the serving revision is sent
RequestBodies ==
  IF variant = "batch" THEN IngestBodies(BatchUrls)
  ELSE IF variant = "ids"
  THEN [json : {TRUE}, urlIsString : {TRUE}, repoUrl : {UrlR}, token : {<<"t">>}]
  ELSE IF variant = "retry"
  THEN [json : {TRUE}, urlIsString : {TRUE}, repoUrl : {UrlR, UrlLab},
        token : {<<"t">>, <<"t", EACUTE>>}]
  ELSE IngestBodies(IngestUrls)

\* A request arrives; requests are numbered in their order of arrival.
Receive(r) ==
  /\ r \in Serving
  /\ pc[r] = "idle"
  /\ \A q \in Req : q < r => pc[q] # "idle"
  /\ Sequential => \A q \in Req : q < r => pc[q] = "done"
  /\ \E b \in RequestBodies : body' = [body EXCEPT ![r] = b]
  /\ pc' = [pc EXCEPT ![r] = "json"]
  /\ UNCHANGED <<pure, sum, chat, variant, chatUi, processing, cleanup, env, repoName, stats, chunks, embeddingsList,
                 vectors, i, successfulBatches, issued, inflight, thrown, resp,
                 store, now>>

\* The synchronous head of ingestRepo: the error it throws, or NoError. (The
\* ingestRepo of src/unnamed/part_007 has no such checks.)
ingestRepoChecks(repoUrl, token) ==
  IF ~ IsAscii(repoUrl) THEN ErrUrlNonAscii
  ELSE IF ~ IsAscii(token) THEN ErrTokenNonAscii
  ELSE IF ~ includes(repoUrl, GITHUB) THEN ErrNotGithub
  ELSE NoError

\* The first external call of ingestRepo: the guarded revision asks the index
\* for its stats, the batched revision goes to the loader.
FirstCall == IF Batched \/ Background THEN "load" ELSE "describeIndexStats"

\* new Pinecone({apiKey: process.env.PINECONE_API_KEY!}) and new
\* OpenAIEmbeddings({apiKey: process.env.OPENAI_API_KEY}) with the value
\* absent: the constructor throws, or the client is built and its calls are
\* rejected by the service. With the value present the client is built.
\* The later revisions take their index from src/lib/pinecone.ts.
ClientThrows(key) ==
  key \notin env /\ ~ ((Batched \/ Background) /\ key = PINECONE_API_KEY)
ClientConstructed(key) == TRUE

\* the service accepts the calls of a client built from these values
Authorized(keys) == keys \subseteq env

\* await req.json() settles; safeParse; ingestRepo runs to its first await.
\* The revision that does not await ingestRepo answers here.
POST(r) ==
  /\ pc[r] = "json"
  /\ ingestModule(env) = NoError
  /\ LET b == body[r] IN
     IF ~ b.json
     THEN /\ resp' = [resp EXCEPT ![r] = FailedToStart(ErrJson)]
          /\ pc' = [pc EXCEPT ![r] = "done"]
          /\ UNCHANGED <<repoName, thrown, issued, inflight>>
     ELSE IF ~ IngestRequestSchema(b)
     THEN /\ resp' = [resp EXCEPT ![r] = ValidationFailed]
          /\ pc' = [pc EXCEPT ![r] = "done"]
          /\ UNCHANGED <<repoName, thrown, issued, inflight>>
     ELSE /\ repoName' = [repoName EXCEPT ![r] = extractRepoName(b.repoUrl)]
          /\ LET e == IF Background THEN NoError
                      ELSE ingestRepoChecks(b.repoUrl, b.token) IN
             IF e # NoError
             THEN /\ thrown' = [thrown EXCEPT ![r] = e]
                  /\ pc' = [pc EXCEPT ![r] = "catch"]
                  /\ UNCHANGED <<issued, inflight>>
             ELSE \/ /\ ClientThrows(PINECONE_API_KEY)
                     /\ thrown' = [thrown EXCEPT ![r] = ErrConfiguration(PINECONE_API_KEY)]
                     /\ pc' = [pc EXCEPT ![r] = "catch"]
                     /\ UNCHANGED <<issued, inflight>>
                  \/ /\ ClientConstructed(PINECONE_API_KEY)
                     /\ issued' = [issued EXCEPT ![r] = Append(@, Call(FirstCall, 0))]
                     /\ inflight' = [inflight EXCEPT ![r] = {Call(FirstCall, 0)}]
                     /\ pc' = [pc EXCEPT ![r] = FirstCall]
                     /\ UNCHANGED thrown
          /\ IF Background
             THEN resp' = [resp EXCEPT ![r] = IngestionStarted]
             ELSE UNCHANGED resp
  /\ UNCHANGED <<pure, sum, chat, variant, chatUi, processing, cleanup, env, body, stats, chunks, embeddingsList,
                 vectors, i, successfulBatches, store, now>>

\* await ingestRepo(...) settles: the 200 response, or the catch block's 500
Respond(r) ==
  /\ ~ Background
  /\ pc[r] \in {"returned", "catch"}
  /\ resp' = [resp EXCEPT ![r] =
                IF pc[r] = "returned" THEN IngestionCompleted
                ELSE IngestionFailed(thrown[r])]
  /\ pc' = [pc EXCEPT ![r] = "done"]
  /\ UNCHANGED <<pure, sum, chat, variant, chatUi, processing, cleanup, env, body, repoName, stats, chunks,
                 embeddingsList, vectors, i, successfulBatches, issued,
                 inflight, thrown, store, now>>

\* ingestRepo(repoUrl, token).then(...).catch(...) of src/unnamed/part_007:
\* the promise settles after the response was sent; both callbacks only log
Settled(r) ==
  /\ Background
  /\ pc[r] \in {"returned", "catch"}
  /\ pc' = [pc EXCEPT ![r] = "done"]
  /\ UNCHANGED <<pure, sum, chat, variant, chatUi, processing, cleanup, env, body, repoName, stats, chunks,
                 embeddingsList, vectors, i, successfulBatches, issued,
                 inflight, thrown, resp, store, now>>

\* An awaited call of r rejects with error e: ingestRepo throws. (A catch
\* block of the embedding loop that logged without throwing would let
\* ingestRepo go on to build the vectors.)
RejectNoRethrow(r, at, e) ==
  /\ pc[r] = at
  /\ thrown' = [thrown EXCEPT ![r] = e]
  /\ inflight' = [inflight EXCEPT ![r] = {}]
  /\ pc' = [pc EXCEPT ![r] = IF at = "embedDocuments" THEN "vectors" ELSE "catch"]

Reject(r, at, e) ==
  /\ pc[r] = at
  /\ thrown' = [thrown EXCEPT ![r] = e]
  /\ inflight' = [inflight EXCEPT ![r] = {}]
  /\ pc' = [pc EXCEPT ![r] = "catch"]

-----------------------------------------------------------------------------
(* ingestRepo of the guarded revision (src/app/api/ingest/route.ts) *)

\* await index.describeIndexStats() resolves; the guard; loader.load() starts
DescribeIndexStatsResolve(r) ==
  /\ pc[r] = "describeIndexStats"
  /\ Authorized({PINECONE_API_KEY, PINECONE_INDEX_NAME})
  /\ LET st == describeIndexStats(store) IN
     /\ stats' = [stats EXCEPT ![r] = [namespaces |-> st.namespaces, read |-> TRUE]]
     /\ IF NamespaceExists(st, repoName[r])
        THEN /\ pc' = [pc EXCEPT ![r] = "returned"]
             /\ inflight' = [inflight EXCEPT ![r] = {}]
             /\ UNCHANGED issued
        ELSE /\ pc' = [pc EXCEPT ![r] = "load"]
             /\ issued' = [issued EXCEPT ![r] = Append(@, Call("load", 0))]
             /\ inflight' = [inflight EXCEPT ![r] = {Call("load", 0)}]
  /\ UNCHANGED <<pure, sum, chat, variant, chatUi, processing, cleanup, env, body, repoName, chunks, embeddingsList,
                 vectors, i, successfulBatches, thrown, resp, store, now>>

DescribeIndexStatsReject(r) ==
  /\ Reject(r, "describeIndexStats", ErrStats)
  /\ UNCHANGED <<pure, sum, chat, variant, chatUi, processing, cleanup, env, body, repoName, stats, chunks,
                 embeddingsList, vectors, i, successfulBatches, issued, resp,
                 store, now>>

\* loader.load() rejects (the batched revision wraps the message)
LoadReject(r) ==
  /\ Reject(r, "load", ErrLoad)
  /\ UNCHANGED <<pure, sum, chat, variant, chatUi, processing, cleanup, env, body, repoName, stats, chunks,
                 embeddingsList, vectors, i, successfulBatches, issued, resp,
                 store, now>>

\* The records PineconeStore.fromDocuments writes for chunks 0..n-1 of request
\* r: one record per chunk under a fresh (uuid) id.
FromDocumentsIdByChunk(r, idx) == <<"uuid", 0, idx>>
FromDocumentsId(r, idx) == <<"uuid", r, idx>>

FromDocumentsRecords(r, n) ==
  {[ns |-> repoName[r], id |-> FromDocumentsId(r, idx), values |-> idx,
    metadata |-> idx] : idx \in 0..(n - 1)}

\* loader.load() and splitDocuments resolve under a revision that hands the
\* chunks to PineconeStore.fromDocuments (route.ts and src/unnamed/part_007);
\* PineconeStore.fromDocuments starts
LoadResolveGuard(r) ==
  /\ ~ Batched
  /\ pc[r] = "load"
  /\ \E n \in ChunkCounts : chunks' = [chunks EXCEPT ![r] = n]
  /\ \/ /\ ClientThrows(OPENAI_API_KEY)
        /\ thrown' = [thrown EXCEPT ![r] = ErrConfiguration(OPENAI_API_KEY)]
        /\ pc' = [pc EXCEPT ![r] = "catch"]
        /\ inflight' = [inflight EXCEPT ![r] = {}]
        /\ UNCHANGED issued
     \/ /\ ClientConstructed(OPENAI_API_KEY)
        /\ pc' = [pc EXCEPT ![r] = "fromDocuments"]
        /\ issued' = [issued EXCEPT ![r] = Append(@, Call("fromDocuments", 0))]
        /\ inflight' = [inflight EXCEPT ![r] = {Call("fromDocuments", 0)}]
        /\ UNCHANGED thrown
  /\ UNCHANGED <<pure, sum, chat, variant, chatUi, processing, cleanup, env, body, repoName, stats, embeddingsList,
                 vectors, i, successfulBatches, resp, store, now>>

FromDocumentsResolve(r) ==
  /\ pc[r] = "fromDocuments"
  /\ Authorized({OPENAI_API_KEY})
  /\ store' = Upsert(store, FromDocumentsRecords(r, chunks[r]))
  /\ inflight' = [inflight EXCEPT ![r] = {}]
  /\ pc' = [pc EXCEPT ![r] = "returned"]
  /\ UNCHANGED <<pure, sum, chat, variant, chatUi, processing, cleanup, env, body, repoName, stats, chunks,
                 embeddingsList, vectors, i, successfulBatches, issued, thrown,
                 resp, now>>

\* fromDocuments rejects, having written the records of the first k chunks
FromDocumentsReject(r) ==
  /\ Reject(r, "fromDocuments", ErrFromDocuments)
  /\ \E k \in 0..(IF chunks[r] = 0 \/ ~ Authorized({OPENAI_API_KEY}) THEN 0
                  ELSE chunks[r] - 1) :
       store' = Upsert(store, FromDocumentsRecords(r, k))
  /\ UNCHANGED <<pure, sum, chat, variant, chatUi, processing, cleanup, env, body, repoName, stats, chunks,
                 embeddingsList, vectors, i, successfulBatches, issued, resp,
                 now>>

-----------------------------------------------------------------------------
(* ingestRepo of the batched revision (src/unnamed/part_005) *)

\* Math.floor(i / embeddingBatchSize) + 1
embeddingBatchNum(r) == (i[r] \div embeddingBatchSize) + 1
totalEmbeddingBatches(r) == Ceil(chunks[r], embeddingBatchSize)

\* Math.floor(i / batchSize) + 1
batchNumZeroBased(r) == i[r] \div batchSize
batchNum(r) == (i[r] \div batchSize) + 1
totalBatches(r) == Ceil(Len(vectors[r]), batchSize)

\* vectors.slice(i, i + batchSize). (A slice that ended one short would drop
\* the last record of every full batch.)
batchShort(r) ==
  SubSeq(vectors[r], i[r] + 1, MinOf(i[r] + batchSize - 1, Len(vectors[r])))

batch(r) == SubSeq(vectors[r], i[r] + 1, MinOf(i[r] + batchSize, Len(vectors[r])))

\* loader.load() and splitDocuments resolve under the batched revision; the
\* embedding loop starts
LoadResolveBatch(r) ==
  /\ Batched
  /\ pc[r] = "load"
  /\ \E n \in ChunkCounts :
       /\ chunks' = [chunks EXCEPT ![r] = n]
       /\ IF 0 < n
          THEN /\ pc' = [pc EXCEPT ![r] = "embedDocuments"]
               /\ issued' = [issued EXCEPT ![r] = Append(@, Call("embedDocuments", 1))]
               /\ inflight' = [inflight EXCEPT ![r] = {Call("embedDocuments", 1)}]
          ELSE /\ pc' = [pc EXCEPT ![r] = "vectors"]
               /\ inflight' = [inflight EXCEPT ![r] = {}]
               /\ UNCHANGED issued
  /\ embeddingsList' = [embeddingsList EXCEPT ![r] = <<>>]
  /\ i' = [i EXCEPT ![r] = 0]
  /\ UNCHANGED <<pure, sum, chat, variant, chatUi, processing, cleanup, env, body, repoName, stats, vectors,
                 successfulBatches, thrown, resp, store, now>>

\* await embeddings.embedDocuments(batch) resolves: one embedding per chunk of
\* the batch, pushed in order (the embedding of chunk k is written k)
EmbedResolve(r) ==
  /\ pc[r] = "embedDocuments"
  /\ LET len == MinOf(i[r] + embeddingBatchSize, chunks[r]) - i[r] IN
     embeddingsList' = [embeddingsList EXCEPT ![r] =
                          @ \o [k \in 1..len |-> i[r] + k - 1]]
  /\ inflight' = [inflight EXCEPT ![r] = {}]
  /\ IF embeddingBatchNum(r) < totalEmbeddingBatches(r)
     THEN /\ pc' = [pc EXCEPT ![r] = "embedDelay"]
          /\ UNCHANGED i
     ELSE /\ pc' = [pc EXCEPT ![r] = "vectors"]
          /\ i' = [i EXCEPT ![r] = @ + embeddingBatchSize]
  /\ UNCHANGED <<pure, sum, chat, variant, chatUi, processing, cleanup, env, body, repoName, stats, chunks, vectors,
                 successfulBatches, issued, thrown, resp, store, now>>

\* The loop goes to its next iteration once it has awaited the call of the
\* current one and then the timer. (Without the await it would go on while the
\* call is in flight.)
LoopResumesNoAwait(r, timer, call) == pc[r] \in {timer, call}
LoopResumes(r, timer, call) == pc[r] = timer

\* the 50 ms timer between embedding batches fires; the next batch is sent
EmbedDelay(r) ==
  /\ LoopResumes(r, "embedDelay", "embedDocuments")
  /\ embeddingBatchNum(r) < totalEmbeddingBatches(r)
  /\ i' = [i EXCEPT ![r] = @ + embeddingBatchSize]
  /\ LET c == Call("embedDocuments", ((i[r] + embeddingBatchSize) \div embeddingBatchSize) + 1) IN
     /\ issued' = [issued EXCEPT ![r] = Append(@, c)]
     /\ inflight' = [inflight EXCEPT ![r] = @ \cup {c}]
  /\ pc' = [pc EXCEPT ![r] = "embedDocuments"]
  /\ UNCHANGED <<pure, sum, chat, variant, chatUi, processing, cleanup, env, body, repoName, stats, chunks,
                 embeddingsList, vectors, successfulBatches, thrown, resp,
                 store, now>>

EmbedReject(r) ==
  /\ Reject(r, "embedDocuments", ErrEmbedding)
  /\ UNCHANGED <<pure, sum, chat, variant, chatUi, processing, cleanup, env, body, repoName, stats, chunks,
                 embeddingsList, vectors, i, successfulBatches, issued, resp,
                 store, now>>

\* chunks.map((chunk, idx) => ({id: `chunk-${Date.now()}-${idx}`, values:
\* embeddingsList[idx], metadata})): -1 stands for undefined
MakeVectors(n, embs, time) ==
  [k \in 1..n |->
     [id |-> <<"chunk", time, k - 1>>,
      values |-> IF k <= Len(embs) THEN embs[k] ELSE -1,
      metadata |-> k - 1]]

\* After the embedding loop: the vectors are built, chunks and embeddingsList
\* are emptied, and the upsert loop sends its first batch.
CreateVectors(r) ==
  /\ pc[r] = "vectors"
  /\ vectors' = [vectors EXCEPT ![r] = MakeVectors(chunks[r], embeddingsList[r], now)]
  /\ chunks' = [chunks EXCEPT ![r] = 0]
  /\ embeddingsList' = [embeddingsList EXCEPT ![r] = <<>>]
  /\ i' = [i EXCEPT ![r] = 0]
  /\ successfulBatches' = [successfulBatches EXCEPT ![r] = 0]
  /\ IF 0 < chunks[r]
     THEN /\ pc' = [pc EXCEPT ![r] = "upsert"]
          /\ issued' = [issued EXCEPT ![r] = Append(@, Call("upsert", 1))]
          /\ inflight' = [inflight EXCEPT ![r] = {Call("upsert", 1)}]
     ELSE /\ pc' = [pc EXCEPT ![r] = "returned"]
          /\ UNCHANGED <<issued, inflight>>
  /\ UNCHANGED <<pure, sum, chat, variant, chatUi, processing, cleanup, env, body, repoName, stats, thrown, resp,
                 store, now>>

\* the records of a batch as the namespace holds them
Stored(ns, recs) ==
  {[ns |-> ns, id |-> recs[k].id, values |-> recs[k].values,
    metadata |-> recs[k].metadata] : k \in 1..Len(recs)}

\* await index.namespace(repoName).upsert({records: batch}) resolves
UpsertResolve(r) ==
  /\ pc[r] = "upsert"
  /\ store' = Upsert(store, Stored(repoName[r], batch(r)))
  /\ successfulBatches' = [successfulBatches EXCEPT ![r] = @ + 1]
  /\ inflight' = [inflight EXCEPT ![r] = {}]
  /\ IF batchNum(r) < totalBatches(r)
     THEN /\ pc' = [pc EXCEPT ![r] = "upsertDelay"]
          /\ UNCHANGED <<i, vectors>>
     ELSE /\ pc' = [pc EXCEPT ![r] = "returned"]
          /\ i' = [i EXCEPT ![r] = @ + batchSize]
          /\ vectors' = [vectors EXCEPT ![r] = <<>>]
  /\ UNCHANGED <<pure, sum, chat, variant, chatUi, processing, cleanup, env, body, repoName, stats, chunks,
                 embeddingsList, issued, thrown, resp, now>>

\* the 100 ms timer between upsert batches fires; the next batch is sent
UpsertDelay(r) ==
  /\ LoopResumes(r, "upsertDelay", "upsert")
  /\ batchNum(r) < totalBatches(r)
  /\ i' = [i EXCEPT ![r] = @ + batchSize]
  /\ LET c == Call("upsert", ((i[r] + batchSize) \div batchSize) + 1) IN
     /\ issued' = [issued EXCEPT ![r] = Append(@, c)]
     /\ inflight' = [inflight EXCEPT ![r] = @ \cup {c}]
  /\ pc' = [pc EXCEPT ![r] = "upsert"]
  /\ UNCHANGED <<pure, sum, chat, variant, chatUi, processing, cleanup, env, body, repoName, stats, chunks,
                 embeddingsList, vectors, successfulBatches, thrown, resp,
                 store, now>>

\* The store after the catch block of the upsert loop: the block logs and
\* rethrows, and deletes nothing. (A rollback would delete the records of r.)
StoreAfterCatchRollback(r) ==
  {x \in store : x \notin Stored(repoName[r], vectors[r])}
StoreAfterCatch(r) == store

\* the upsert of the current batch rejects: nothing of it is written
UpsertReject(r) ==
  /\ Reject(r, "upsert", ErrUpsert(batchNum(r), totalBatches(r)))
  /\ store' = StoreAfterCatch(r)
  /\ UNCHANGED <<pure, sum, chat, variant, chatUi, processing, cleanup, env, body, repoName, stats, chunks,
                 embeddingsList, vectors, i, successfulBatches, issued, resp,
                 now>>

\* A millisecond passes. Only CreateVectors reads the clock, so the model lets
\* time pass only when some request is about to read it.
Tick ==
  /\ now < MaxTime
  /\ \E r \in Req : pc[r] = "vectors"
  /\ now' = now + 1
  /\ UNCHANGED <<pure, sum, chat, variant, chatUi, processing, cleanup, env, body, pc, repoName, stats, chunks,
                 embeddingsList, vectors, i, successfulBatches, issued,
                 inflight, thrown, resp, store>>

-----------------------------------------------------------------------------
(* extractRepoName on its own *)

UrlHosts == {GITHUB, GITLAB}
UrlOwners == {<<"/", "o">>, <<>>}
UrlNames ==
  {<<>>, <<"r">>, <<"r", ".", "x">>, <<"g", "i", "t">>, <<"r", EACUTE>>,
   <<"r", "?", "x">>} \cup {DOTGIT, <<"r">> \o DOTGIT \o <<"x">>}
UrlSuffixes == {<<>>, DOTGIT, <<"/">>, DOTGIT \o DOTGIT, DOTGIT \o <<"/">>}

\* scheme, host, owner, "/", name, suffix; and the same without "/" and name
PureUrls ==
  {sch \o h \o o \o <<"/">> \o n \o x :
     sch \in {HTTPS, <<>>}, h \in UrlHosts, o \in UrlOwners, n \in UrlNames,
     x \in UrlSuffixes}
  \cup {<<>>, GITHUB, <<"r">>, <<"r">> \o DOTGIT}

PureInit == pure \in [pc : {"input"}, url : PureUrls, name : {<<>>}]

ExtractRepoName ==
  /\ pure.pc = "input"
  /\ pure' = [pure EXCEPT !.pc = "extracted", !.name = extractRepoName(pure.url)]
  /\ UNCHANGED <<sum, chat, variant, chatUi, processing, cleanup, env, body, pc, repoName, stats, chunks,
                 embeddingsList, vectors, i, successfulBatches, issued,
                 inflight, thrown, resp, store, now>>

PureIdle == pure = [pc |-> "idle", url |-> <<>>, name |-> <<>>]
SumIdle == sum = [pc |-> "idle"]
ChatIdle == chat = [pc |-> "idle"]

-----------------------------------------------------------------------------
(* POST /summarize (src/app/api/summarize/route.ts) *)

\* metadata.text and metadata.source of a match. The handler only tests them
\* for truthiness, so an absent field is written as the empty string.
SourceATs == <<"a", ".", "t", "s">>
SourceBPy == <<"b", ".", "p", "y">>
SourceCTsx == <<"c", ".", "t", "s", "x">>
SourceMd == <<"x", ".", "m", "d">>
\* a file named "go": the path has no dot
SourceGo == <<"g", "o">>
CONSTRUCTOR == <<"c", "o", "n", "s", "t", "r", "u", "c", "t", "o", "r">>
\* "x.constructor"
SourceCtor == <<"x", ".">> \o CONSTRUCTOR

\* the matches a query may return: with text and source, with one of the
\* two, with sources of mapped and unmapped extensions
Matches ==
  {[text |-> <<"a">>, source |-> SourceATs],
   [text |-> <<"a", "\n", "b">>, source |-> SourceBPy],
   [text |-> <<"a">>, source |-> SourceCTsx],
   [text |-> <<>>, source |-> SourceATs],
   [text |-> <<"a">>, source |-> <<>>],
   [text |-> <<"a">>, source |-> SourceMd],
   [text |-> <<"a">>, source |-> SourceGo],
   [text |-> <<"a">>, source |-> SourceCtor]}

\* the matches a query is answered from
QueryMatches ==
  IF variant = "respond" THEN {[text |-> <<"a">>, source |-> SourceATs]}
  ELSE Matches

\* queryResponse.matches: up to MaxMatches matches
MatchSeqs == UNION {[1..n -> QueryMatches] : n \in 0..MaxMatches}

\* json = FALSE: req.json() rejects. namespaceIsString = FALSE: namespace is
\* present and is no string. An absent namespace is the empty string
\* (namespace || '').
SumBodies ==
  {[json |-> FALSE, namespaceIsString |-> TRUE, namespace |-> <<>>],
   [json |-> TRUE, namespaceIsString |-> FALSE, namespace |-> <<>>],
   [json |-> TRUE, namespaceIsString |-> TRUE, namespace |-> <<>>],
   [json |-> TRUE, namespaceIsString |-> TRUE, namespace |-> <<"r">>]}

\* SummarizeRequestSchema.safeParse(body).success
SummarizeRequestSchema(b) == b.namespaceIsString

\* Array.prototype.join
RECURSIVE Join(_, _)
Join(strs, sep) ==
  IF Len(strs) = 0 THEN <<>>
  ELSE IF Len(strs) = 1 THEN strs[1]
  ELSE strs[1] \o sep \o Join(Tail(strs), sep)

\* matches.map(m => m.metadata?.text).filter(Boolean).join('\n\n')
Context(matches) ==
  LET texts == [k \in 1..Len(matches) |-> matches[k].text] IN
  Join(SelectSeq(texts, LAMBDA t : t # <<>>), <<"\n", "\n">>)

\* !context || context.length === 0
NoContextByMatches(matches, context) == Len(matches) = 0
NoContext(matches, context) == Len(context) = 0

\* the distinct truthy metadata.source values
Sources(matches) ==
  {matches[k].source : k \in {m \in 1..Len(matches) : matches[m].source # <<>>}}

\* source.split('.').pop() || 'unknown'
Extension(source) ==
  LET dots == {k \in 1..Len(source) : source[k] = "."}
      last == IF dots = {} THEN 0 ELSE CHOOSE k \in dots : \A m \in dots : m <= k
      ext == SubSeq(source, last + 1, Len(source))
  IN IF ext = <<>> THEN <<"u", "n", "k", "n", "o", "w", "n">> ELSE ext

\* the own properties of the object literal languageMap
LanguageTable ==
  {<<<<"t", "s">>, "TypeScript">>, <<<<"t", "s", "x">>, "TypeScript">>,
   <<<<"j", "s">>, "JavaScript">>, <<<<"j", "s", "x">>, "JavaScript">>,
   <<<<"p", "y">>, "Python">>, <<<<"j", "a", "v", "a">>, "Java">>,
   <<<<"c", "p", "p">>, "C++">>, <<<<"c">>, "C">>, <<<<"r", "s">>, "Rust">>,
   <<<<"g", "o">>, "Go">>, <<<<"r", "b">>, "Ruby">>, <<<<"p", "h", "p">>, "PHP">>,
   <<<<"s", "q", "l">>, "SQL">>, <<<<"j", "s", "o", "n">>, "JSON">>,
   <<<<"y", "a", "m", "l">>, "YAML">>, <<<<"h", "t", "m", "l">>, "HTML">>,
   <<<<"c", "s", "s">>, "CSS">>}

\* languageMap is an object literal: a key it does not own is looked up on
\* Object.prototype, where "constructor" names a function (a truthy value)
InheritedKeys == {CONSTRUCTOR}

\* languageMap[ext]; "" stands for undefined
languageMap(ext) ==
  IF \E e \in LanguageTable : e[1] = ext
  THEN (CHOOSE e \in LanguageTable : e[1] = ext)[2]
  ELSE IF ext \in InheritedKeys THEN "[Function: Object]"
  ELSE ""

uniqueLanguages(matches) ==
  {languageMap(Extension(src)) : src \in Sources(matches)} \ {""}

\* (text.match(/\n/g) || []).length + 1, summed over the matches with text
totalLines(matches) ==
  LET RECURSIVE Sum(_)
      Sum(k) ==
        IF k = 0 THEN 0
        ELSE Sum(k - 1)
             + (IF matches[k].text = <<>> THEN 0
                ELSE Cardinality({p \in 1..Len(matches[k].text) :
                                    matches[k].text[p] = "\n"}) + 1)
  IN Sum(Len(matches))

\* `${(totalLines / 1000).toFixed(1)}k` as <<whole part, decimal digit>>;
\* "0k" of the canned answer is <<0, -1>>
Lines(n) == <<((n + 50) \div 100) \div 10, ((n + 50) \div 100) % 10>>

\* The text generateText returns: characters around one payload. PAYLOAD
\* stands for the characters of the payload, which JSON.parse accepts or
\* rejects; it is no white space and no backtick. A parsed field is absent, a
\* string, an array of items (each a string or not), or a value of another
\* type.
Absent == [type |-> "absent", v |-> <<>>]
StrVal(x) == [type |-> "string", v |-> <<x>>]
ArrVal(items) == [type |-> "array", v |-> items]
Item(t, x) == [type |-> t, v |-> x]

ModelSummaries == {Absent, StrVal("x"), StrVal(""), [type |-> "number", v |-> <<>>]}
ModelLists ==
  {Absent, ArrVal(<<Item("string", "Go")>>),
   ArrVal(<<Item("string", "p"), Item("number", "1")>>),
   [type |-> "string", v |-> <<>>]}

\* one backtick
BT == "U+0060"
FENCE == <<BT, BT, BT>>
JSONTAG == <<"j", "s", "o", "n">>
PAYLOAD == "{...}"

\* the text is the payload alone, or the payload in a fence without a tag or
\* with the tag json
PlainText == <<PAYLOAD>>
BareFenced == FENCE \o <<"\n", PAYLOAD, "\n">> \o FENCE
JsonFenced == FENCE \o JSONTAG \o <<"\n", PAYLOAD, "\n">> \o FENCE

\* other texts: white space around, a fence without line breaks, an upper-case
\* tag, prose before the payload, a fence that is not closed, a closing fence
\* alone, the empty text
OtherTexts ==
  {<<" ", PAYLOAD, "\n">>,
   <<"\n">> \o JsonFenced \o <<"\n">>,
   FENCE \o JSONTAG \o <<PAYLOAD>> \o FENCE,
   FENCE \o <<"J", "S", "O", "N", "\n", PAYLOAD, "\n">> \o FENCE,
   <<"x", " ", PAYLOAD>>,
   FENCE \o JSONTAG \o <<"\n", PAYLOAD>>,
   <<PAYLOAD, "\n">> \o FENCE,
   <<>>}

\* a payload JSON.parse rejects
BadPayload ==
  [json |-> FALSE, summary |-> Absent, techStack |-> Absent, patterns |-> Absent]

\* {"summary":"x","techStack":["Go"],"patterns":["p"]}
GoodPayload ==
  [json |-> TRUE, summary |-> StrVal("x"),
   techStack |-> ArrVal(<<Item("string", "Go")>>),
   patterns |-> ArrVal(<<Item("string", "p")>>)]

ModelPayloads ==
  {BadPayload}
  \cup [json : {TRUE}, summary : ModelSummaries, techStack : ModelLists,
        patterns : {Absent, ArrVal(<<Item("string", "p")>>)}]

Text(chars, payload) ==
  [chars |-> chars, json |-> payload.json, summary |-> payload.summary,
   techStack |-> payload.techStack, patterns |-> payload.patterns]

\* every payload as plain text; the two reference payloads in every other
\* text
ModelTexts ==
  IF variant = "respond"
  THEN {Text(PlainText, BadPayload), Text(PlainText, GoodPayload)}
  ELSE {Text(PlainText, p) : p \in ModelPayloads}
       \cup {Text(c, p) : c \in {BareFenced, JsonFenced} \cup OtherTexts,
                          p \in {BadPayload, GoodPayload}}

IsSpace(c) == c \in {" ", "\n"}

\* String.prototype.trim
trim(s) ==
  LET ink == {k \in 1..Len(s) : ~ IsSpace(s[k])} IN
  IF ink = {} THEN <<>>
  ELSE SubSeq(s, Min(ink), CHOOSE k \in ink : \A m \in ink : m <= k)

\* s without its first n characters
Drop(s, n) == SubSeq(s, n + 1, Len(s))

\* a mutant of the opening expression: /^```\n?/, the tag is not removed
StripOpenNoTag(s) ==
  LET r1 == Drop(s, Len(FENCE)) IN
  IF StartsWith(r1, <<"\n">>) THEN Drop(r1, 1) ELSE r1

\* s.replace(/^```(?:json)?\n?/, '') for s that starts with the fence
StripOpen(s) ==
  LET r1 == Drop(s, Len(FENCE))
      r2 == IF StartsWith(r1, JSONTAG) THEN Drop(r1, Len(JSONTAG)) ELSE r1
  IN IF StartsWith(r2, <<"\n">>) THEN Drop(r2, 1) ELSE r2

\* s.replace(/\n?```$/, ''): the leftmost match takes the line break
StripClose(s) ==
  IF EndsWith(s, <<"\n">> \o FENCE) THEN SubSeq(s, 1, Len(s) - Len(FENCE) - 1)
  ELSE IF EndsWith(s, FENCE) THEN SubSeq(s, 1, Len(s) - Len(FENCE))
  ELSE s

\* jsonText as JSON.parse receives it
jsonText(analysisText) ==
  LET t == trim(analysisText) IN
  IF StartsWith(t, FENCE) THEN StripClose(StripOpen(t)) ELSE t

\* JSON.parse(jsonText) returns: the payload is JSON and nothing but white
\* space surrounds it
Parses(text) == text.json /\ trim(jsonText(text.chars)) = <<PAYLOAD>>

\* a mutant of the filter: every item is kept
StringsUnfiltered(items) == [k \in 1..Len(items) |-> items[k].v]

\* parsed.filter(t => typeof t === 'string')
Strings(items) ==
  LET kept == SelectSeq(items, LAMBDA x : x.type = "string") IN
  [k \in 1..Len(kept) |-> kept[k].v]

DefaultSummary ==
  "A full-stack application for managing and analyzing codebases with AI-powered insights."
DefaultPatterns == <<"Component-based Architecture", "REST API", "Event-driven">>

\* a set of strings as a sequence: Array.from(uniqueLanguages)
RECURSIVE SeqOf(_)
SeqOf(S) ==
  IF S = {} THEN <<>>
  ELSE LET x == CHOOSE y \in S : TRUE IN <<x>> \o SeqOf(S \ {x})

\* a mutant of the initial techStack: the empty array
DefaultTechStackEmpty(matches) == <<>>

\* techStack: Array.from(uniqueLanguages)
DefaultTechStack(matches) == SeqOf(uniqueLanguages(matches))

\* the analysis object after the try block
Analysis(matches, text) ==
  LET def == [summary |-> DefaultSummary,
              techStack |-> DefaultTechStack(matches),
              patterns |-> DefaultPatterns]
  IN IF ~ Parses(text) THEN def
     ELSE [summary |->
             IF text.summary.type = "string" /\ text.summary.v # <<"">>
             THEN text.summary.v[1] ELSE def.summary,
           techStack |->
             IF text.techStack.type = "array" THEN Strings(text.techStack.v)
             ELSE def.techStack,
           patterns |->
             IF text.patterns.type = "array" THEN Strings(text.patterns.v)
             ELSE def.patterns]

NoContextSummary ==
  "Repository ingestion completed but no code context could be retrieved. Please ensure the repository was successfully ingested."

\* the canned answer of the empty context
NoContextResponse ==
  [status |-> 200, summary |-> NoContextSummary, techStack |-> <<>>,
   patterns |-> <<>>, stats |-> [files |-> 0, lines |-> <<0, -1>>, languages |-> 0]]

SummaryResponse(matches, text) ==
  LET a == Analysis(matches, text) IN
  [status |-> 200, summary |-> a.summary, techStack |-> a.techStack,
   patterns |-> a.patterns,
   stats |-> [files |-> Cardinality(Sources(matches)),
              lines |-> Lines(totalLines(matches)),
              languages |-> Cardinality(uniqueLanguages(matches))]]

SumError(status) ==
  [status |-> status, summary |-> "", techStack |-> <<>>, patterns |-> <<>>,
   stats |-> [files |-> 0, lines |-> <<0, -1>>, languages |-> 0]]

SumNoResp == SumError(0)

NoText == Text(<<>>, BadPayload)

SumInit ==
  sum \in [pc : {"json"}, body : SumBodies, queried : {FALSE}, matches : {<<>>},
           context : {<<>>}, calls : {<<>>}, generated : {FALSE},
           text : {NoText}, resp : {SumNoResp}]

SumUnchanged ==
  UNCHANGED <<pure, chat, variant, chatUi, processing, cleanup, env, body, pc, repoName, stats, chunks, embeddingsList,
              vectors, i, successfulBatches, issued, inflight, thrown, resp,
              store, now>>

\* await req.json() settles; safeParse; embed() is called
SumPOST ==
  /\ sum.pc = "json"
  /\ IF ~ sum.body.json
     THEN sum' = [sum EXCEPT !.pc = "done", !.resp = SumError(500)]
     ELSE IF ~ SummarizeRequestSchema(sum.body)
     THEN sum' = [sum EXCEPT !.pc = "done", !.resp = SumError(400)]
     ELSE sum' = [sum EXCEPT !.pc = "embed", !.calls = Append(@, "embed")]
  /\ SumUnchanged

\* await embed(...) resolves; the index is queried
SumEmbedResolve ==
  /\ sum.pc = "embed"
  /\ sum' = [sum EXCEPT !.pc = "query", !.calls = Append(@, "query")]
  /\ SumUnchanged

\* an awaited call rejects: the catch block answers 500
SumReject ==
  /\ sum.pc \in {"embed", "query", "generateText"}
  /\ sum' = [sum EXCEPT !.pc = "done", !.resp = SumError(500)]
  /\ SumUnchanged

\* await index.namespace(...).query(...) resolves with matches; the context is
\* assembled; the empty context is answered at once, any other goes to
\* generateText
SumQueryResolve ==
  /\ sum.pc = "query"
  /\ \E ms \in MatchSeqs :
       LET context == Context(ms) IN
       IF NoContext(ms, context)
       THEN sum' = [sum EXCEPT !.pc = "done", !.queried = TRUE, !.matches = ms,
                               !.context = context, !.resp = NoContextResponse]
       ELSE sum' = [sum EXCEPT !.pc = "generateText", !.queried = TRUE,
                               !.matches = ms, !.context = context,
                               !.calls = Append(@, "generateText")]
  /\ SumUnchanged

\* await generateText(...) resolves; the text is parsed; the answer is built
SumGenerateResolve ==
  /\ sum.pc = "generateText"
  /\ \E t \in ModelTexts :
       sum' = [sum EXCEPT !.pc = "done", !.generated = TRUE, !.text = t,
                          !.resp = SummaryResponse(sum.matches, t)]
  /\ SumUnchanged

-----------------------------------------------------------------------------
(* POST /chat (src/app/api/chat/route.ts, which streams its answer, and the  *)
(* revision src/unnamed/part_008, which awaits generateText)                *)

ChatRevisions == {"stream", "generate"}

\* topK of the store query
topK(revision) == IF revision = "stream" THEN 10 ELSE 5

\* conversationHistory: absent, an array of {role, content}, or another value
NoHistory == [kind |-> "absent", v |-> <<>>]
History(entries) == [kind |-> "array", v |-> entries]
Msg(role, content) == [role |-> role, content |-> content]

ChatHistories ==
  {NoHistory, History(<<>>),
   History(<<Msg("user", "q1"), Msg("assistant", "a1")>>),
   History(<<Msg("user", "q1"), Msg("system", "s")>>),
   [kind |-> "other", v |-> <<>>]}

\* json = FALSE: req.json() rejects. messageIsString = FALSE: message is
\* absent or is no string. An absent namespace is the empty string.
ChatBodies ==
  {[json |-> FALSE, messageIsString |-> FALSE, message |-> "",
    namespaceIsString |-> TRUE, namespace |-> <<>>, history |-> NoHistory]}
  \cup [json : {TRUE}, messageIsString : {TRUE}, message : {"", "q"},
        namespaceIsString : {TRUE}, namespace : {<<>>, <<"r">>},
        history : ChatHistories]
  \cup [json : {TRUE}, messageIsString : {FALSE}, message : {""},
        namespaceIsString : {TRUE}, namespace : {<<"r">>},
        history : ChatHistories]
  \cup [json : {TRUE}, messageIsString : {TRUE}, message : {"q"},
        namespaceIsString : {FALSE}, namespace : {<<>>},
        history : ChatHistories]

\* a mutant of MessageSchema: role is any string
MessageSchemaAnyRole(m) == TRUE

\* MessageSchema: role is "user" or "assistant"
MessageSchema(m) == m.role \in {"user", "assistant"}

\* ChatRequestSchema.safeParse(body).success
ChatRequestSchema(b) ==
  /\ b.messageIsString
  /\ b.message # ""
  /\ b.namespaceIsString
  /\ b.history.kind \in {"absent", "array"}
  /\ \A k \in 1..Len(b.history.v) : MessageSchema(b.history.v[k])

\* a mutant of the context: the text of the first match alone
ChatContextFirst(matches) ==
  IF Len(matches) = 0 THEN <<>> ELSE matches[1].text

\* matches.map(m => m.metadata?.text).filter(Boolean).join("\n\n")
ChatContext(matches) ==
  LET texts == [k \in 1..Len(matches) |-> matches[k].text] IN
  Join(SelectSeq(texts, LAMBDA t : t # <<>>), <<"\n", "\n">>)

\* a mutant of the message list: the history is dropped
ChatMessagesNoHistory(history, message) == <<Msg("user", message)>>

\* messages = conversationHistory || []; messages.push({role: "user", ...})
ChatMessages(history, message) ==
  (IF history.kind = "array" THEN history.v ELSE <<>>)
  \o <<Msg("user", message)>>

\* what is passed to streamText / generateText, once it is called
NoCompletion == [called |-> FALSE, context |-> <<>>, messages |-> <<>>]
Completion(context, messages) ==
  [called |-> TRUE, context |-> context, messages |-> messages]

\* snippets: the number named by "Used n relevant code snippets", -1 when
\* the body has no such text
ChatResp(status, kind, snippets) ==
  [status |-> status, kind |-> kind, snippets |-> snippets]
ChatNoResp == ChatResp(0, "none", -1)
ChatValidationFailed == ChatResp(400, "Validation failed", -1)
ChatFailed == ChatResp(500, "Chat failed", -1)
ChatStream == ChatResp(200, "text stream", -1)
\* {response, context: "Used n relevant code snippets" | "No relevant context found"}
ChatAnswer(matches, context) ==
  ChatResp(200, "response", IF Len(context) > 0 THEN Len(matches) ELSE -1)

ChatInit ==
  chat \in [pc : {"json"}, revision : ChatRevisions, body : ChatBodies,
            queried : {FALSE}, matches : {<<>>}, context : {<<>>},
            calls : {<<>>}, rejected : {""}, completion : {NoCompletion},
            resp : {ChatNoResp}]

ChatUnchanged ==
  UNCHANGED <<pure, sum, variant, chatUi, processing, cleanup, env, body, pc, repoName, stats, chunks,
              embeddingsList, vectors, i, successfulBatches, issued, inflight,
              thrown, resp, store, now>>

\* await req.json() settles; safeParse; embed() is called
ChatPOST ==
  /\ chat.pc = "json"
  /\ IF ~ chat.body.json
     THEN chat' = [chat EXCEPT !.pc = "done", !.resp = ChatFailed]
     ELSE IF ~ ChatRequestSchema(chat.body)
     THEN chat' = [chat EXCEPT !.pc = "done", !.resp = ChatValidationFailed]
     ELSE chat' = [chat EXCEPT !.pc = "embed", !.calls = Append(@, "embed")]
  /\ ChatUnchanged

\* await embed(...) resolves; the index is queried
ChatEmbedResolve ==
  /\ chat.pc = "embed"
  /\ chat' = [chat EXCEPT !.pc = "query", !.calls = Append(@, "query")]
  /\ ChatUnchanged

\* an awaited call rejects: the catch block answers 500
ChatReject ==
  /\ chat.pc \in {"embed", "query", "generateText"}
  /\ chat' = [chat EXCEPT !.pc = "done", !.rejected = chat.pc,
                          !.resp = ChatFailed]
  /\ ChatUnchanged

\* await index.namespace(...).query(...) resolves with at most topK matches;
\* the context and the messages are built and the completion model is called:
\* streamText returns at once and its stream is the answer, generateText is
\* awaited
ChatQueryResolve ==
  /\ chat.pc = "query"
  /\ \E ms \in MatchSeqs :
       /\ Len(ms) <= topK(chat.revision)
       /\ LET context == ChatContext(ms)
              messages == ChatMessages(chat.body.history, chat.body.message)
          IN IF chat.revision = "stream"
             THEN chat' = [chat EXCEPT !.pc = "done", !.queried = TRUE,
                             !.matches = ms, !.context = context,
                             !.calls = Append(@, "streamText"),
                             !.completion = Completion(context, messages),
                             !.resp = ChatStream]
             ELSE chat' = [chat EXCEPT !.pc = "generateText", !.queried = TRUE,
                             !.matches = ms, !.context = context,
                             !.calls = Append(@, "generateText"),
                             !.completion = Completion(context, messages)]
  /\ ChatUnchanged

\* await generateText(...) resolves: the answer of the revision part_008
ChatGenerateResolve ==
  /\ chat.pc = "generateText"
  /\ chat' = [chat EXCEPT !.pc = "done",
                          !.resp = ChatAnswer(chat.matches, chat.context)]
  /\ ChatUnchanged

-----------------------------------------------------------------------------
(* The namespace the UI derives from the repository URL                    *)
(* (src/unnamed/part_001, src/unnamed/part_002, src/unnamed/part_003)       *)

\* s.split("/").pop(): what follows the last "/", s itself when it has none
splitPop(s) ==
  LET at == {k \in 1..Len(s) : s[k] = "/"} IN
  IF at = {} THEN s
  ELSE SubSeq(s, (CHOOSE k \in at : \A m \in at : m <= k) + 1, Len(s))

\* s.split("/").slice(-2).join("/"): what follows the last "/" but one
sliceLastTwo(s) ==
  LET at == {k \in 1..Len(s) : s[k] = "/"} IN
  IF Cardinality(at) < 2 THEN s
  ELSE LET last == CHOOSE k \in at : \A m \in at : m <= k
           prev == CHOOSE k \in at \ {last} : \A m \in at \ {last} : m <= k
       IN SubSeq(s, prev + 1, Len(s))

\* s.replace(".git", ""): the first occurrence of ".git" is removed
replaceDotGit(s) ==
  LET at == {k \in 1..(Len(s) - Len(DOTGIT) + 1) :
               SubSeq(s, k, k + Len(DOTGIT) - 1) = DOTGIT}
  IN IF at = {} THEN s
     ELSE LET k == Min(at) IN
          SubSeq(s, 1, k - 1) \o SubSeq(s, k + Len(DOTGIT), Len(s))

\* generateAndComplete: repoUrl.split("/").pop()?.replace(".git", "") || "default"
summarizeNamespace(repoUrl) ==
  LET n == replaceDotGit(splitPop(repoUrl)) IN
  IF n = <<>> THEN DEFAULT ELSE n

\* IntelligenceHub: the namespace prop of ChatInterface,
\* repoUrl.split("/").slice(-2).join("/").replace(".git", "").split('/').pop()
hubNamespace(repoUrl) == splitPop(replaceDotGit(sliceLastTwo(repoUrl)))

\* handleSubmit: namespace || repoUrl.split("/").pop()?.replace(".git", "") || "default"
chatNamespace(repoUrl) ==
  IF hubNamespace(repoUrl) # <<>> THEN hubNamespace(repoUrl)
  ELSE summarizeNamespace(repoUrl)

\* "https://github.com/o/o.github.io"
UrlPages ==
  Str(<<HTTPS, GITHUB, <<"/", "o", "/", "o", ".">> \o
        <<"g", "i", "t", "h", "u", "b", ".", "i", "o">>>>)

UiUrls == PureUrls \cup {UrlPages}

\* the UI is given a repository URL (and a token of ASCII characters)
UiInit ==
  pure \in [pc : {"input"}, url : UiUrls, name : {<<>>},
            summarizeNs : {<<>>}, chatNs : {<<>>}]

UiUnchanged ==
  UNCHANGED <<sum, chat, variant, chatUi, processing, cleanup, env, body, pc, repoName, stats, chunks,
              embeddingsList, vectors, i, successfulBatches, issued, inflight,
              thrown, resp, store, now>>

\* ingestRepository(repoUrl, token): the route rejects the URL, or ingestRepo
\* runs with the namespace extractRepoName gives
UiIngest ==
  /\ pure.pc = "input"
  /\ LET b == [json |-> TRUE, urlIsString |-> TRUE, repoUrl |-> pure.url,
               token |-> <<"t">>]
     IN IF IngestRequestSchema(b) /\ ingestRepoChecks(b.repoUrl, b.token) = NoError
        THEN pure' = [pure EXCEPT !.pc = "ingested",
                                  !.name = extractRepoName(pure.url)]
        ELSE pure' = [pure EXCEPT !.pc = "rejected"]
  /\ UiUnchanged

\* generateAndComplete: the namespace sent to /summarize
UiGenerateSummary ==
  /\ pure.pc = "ingested"
  /\ pure' = [pure EXCEPT !.pc = "summarized",
                          !.summarizeNs = summarizeNamespace(pure.url)]
  /\ UiUnchanged

\* handleSubmit: the namespace sent to /chat
UiHandleSubmit ==
  /\ pure.pc = "summarized"
  /\ pure' = [pure EXCEPT !.pc = "chatted", !.chatNs = chatNamespace(pure.url)]
  /\ UiUnchanged

-----------------------------------------------------------------------------
(* The cleanup script: src/scripts/pinecone_cleanup.ts, which deletes the     *)
(* namespaces one by one, and src/unnamed/part_000, which calls              *)
(* index.deleteAll()                                                        *)

CleanupRevisions == {"namespaces", "index"}

\* the namespace a call on the index itself addresses
DefaultNamespace == <<>>

CleanupNamespaces == {<<"r">>, <<"l", "a", "b">>, DefaultNamespace}

\* an index that holds two records in each namespace of N
StoreOf(N) ==
  {[ns |-> n, id |-> <<"uuid", 0, k>>, values |-> k, metadata |-> k] :
     n \in N, k \in 0..1}

\* Object.keys(stats.namespaces || {}): the namespaces in the order the
\* service lists them, which may be any
KeyOrders(st) ==
  LET N == DOMAIN st.namespaces
  IN {o \in [1..Cardinality(N) -> N] : \A n \in N : \E k \in DOMAIN o : o[k] = n}

\* index.namespace(ns).deleteAll()
DeleteAll(st, ns) == {x \in st : x.ns # ns}

CleanupCall(op, ns) == [op |-> op, ns |-> ns]

CleanupIdle ==
  cleanup = [pc |-> "idle", revision |-> "namespaces", namespaces |-> <<>>,
             k |-> 0, calls |-> <<>>, inflight |-> {}, thrown |-> FALSE]

CleanupInit ==
  cleanup \in [pc : {"start"}, revision : CleanupRevisions, namespaces : {<<>>},
               k : {0}, calls : {<<>>}, inflight : {{}}, thrown : {FALSE}]

CleanupUnchanged ==
  UNCHANGED <<pure, sum, chat, variant, chatUi, processing, env, body, pc, repoName, stats, chunks,
              embeddingsList, vectors, i, successfulBatches, issued, inflight,
              thrown, resp, now>>

\* cleanup() runs to await index.describeIndexStats()
CleanupStart ==
  /\ cleanup.pc = "start"
  /\ LET c == CleanupCall("describeIndexStats", DefaultNamespace) IN
     cleanup' = [cleanup EXCEPT !.pc = "describeIndexStats",
                                !.calls = Append(@, c), !.inflight = {c}]
  /\ UNCHANGED store
  /\ CleanupUnchanged

\* the namespace the first delete call of a revision addresses
FirstDelete(revision, order) ==
  IF revision = "namespaces" THEN order[1] ELSE DefaultNamespace

\* describeIndexStats resolves; with no namespace the script returns, else it
\* sends its first delete call
CleanupStatsResolve ==
  /\ cleanup.pc = "describeIndexStats"
  /\ \E order \in KeyOrders(describeIndexStats(store)) :
       IF Len(order) = 0
       THEN cleanup' = [cleanup EXCEPT !.pc = "done", !.namespaces = order,
                                       !.inflight = {}]
       ELSE LET c == CleanupCall("deleteAll", FirstDelete(cleanup.revision, order)) IN
            cleanup' = [cleanup EXCEPT !.pc = "deleteAll", !.namespaces = order,
                                       !.k = 1, !.calls = Append(@, c),
                                       !.inflight = {c}]
  /\ UNCHANGED store
  /\ CleanupUnchanged

\* await ...deleteAll() resolves: the for-of loop goes to the next namespace,
\* and after the last one the stats are read again; the revision that calls
\* index.deleteAll() returns
CleanupDeleteResolve ==
  /\ cleanup.pc = "deleteAll"
  /\ \E c \in cleanup.inflight : store' = DeleteAll(store, c.ns)
  /\ IF cleanup.revision = "index"
     THEN cleanup' = [cleanup EXCEPT !.pc = "done", !.inflight = {}]
     ELSE IF cleanup.k < Len(cleanup.namespaces)
     THEN LET c == CleanupCall("deleteAll", cleanup.namespaces[cleanup.k + 1]) IN
          cleanup' = [cleanup EXCEPT !.k = @ + 1, !.calls = Append(@, c),
                                     !.inflight = {c}]
     ELSE LET c == CleanupCall("describeIndexStats", DefaultNamespace) IN
          cleanup' = [cleanup EXCEPT !.pc = "finalStats", !.calls = Append(@, c),
                                     !.inflight = {c}]
  /\ CleanupUnchanged

\* the final describeIndexStats resolves: "Cleanup completed."
CleanupFinalStatsResolve ==
  /\ cleanup.pc = "finalStats"
  /\ cleanup' = [cleanup EXCEPT !.pc = "done", !.inflight = {}]
  /\ UNCHANGED store
  /\ CleanupUnchanged

\* an awaited call rejects: the catch block logs and rethrows
CleanupReject ==
  /\ cleanup.pc \in {"describeIndexStats", "deleteAll", "finalStats"}
  /\ cleanup' = [cleanup EXCEPT !.pc = "failed", !.inflight = {}, !.thrown = TRUE]
  /\ UNCHANGED store
  /\ CleanupUnchanged

-----------------------------------------------------------------------------
(* The Home page (src/unnamed/part_008) with one ProcessingState instance:   *)
(* src/unnamed/part_001, whose animation waits for ingestionComplete, and    *)
(* the revision in src/components/ConfigurationDashboard.tsx, whose          *)
(* animation starts with the component                                      *)

ProcessingRevisions == {"gated", "ungated"}

\* processingSteps.length
StepCount(revision) == IF revision = "gated" THEN 5 ELSE 10

\* response.ok
Ok(status) == status \in 200..299

\* what fetch("/api/ingest") settles with: a response of the route, or a
\* rejection (status 0)
IngestFetches ==
  {IngestionCompleted, IngestionStarted, ValidationFailed,
   IngestionFailed(ErrLoad), FailedToStart(ErrJson), NoResp}

\* ingestRepository(repoUrl, token) returns; otherwise it throws
ingestRepository(response) ==
  /\ response # NoResp
  /\ Ok(response.status)
  /\ response.success

RepositoryMetadata(summary, techStack, files, lines, languages) ==
  [summary |-> summary, techStack |-> techStack, patterns |-> <<>>,
   stats |-> [files |-> files, lines |-> lines, languages |-> languages]]

\* the metadata generateAndComplete hands over when generateSummary throws
FailedMetadataNone == <<>>
FailedMetadata ==
  <<RepositoryMetadata("Failed to generate summary. Please try again.",
                       <<>>, 0, "0k", 0)>>

\* what fetch("/api/summarize") settles with: status and body; status 0 is a
\* rejection
SummarizeFetches ==
  {[status |-> 200, body |-> RepositoryMetadata("s", <<"TypeScript">>, 2, "0.1k", 1)],
   [status |-> 200, body |-> RepositoryMetadata("No code found", <<>>, 0, "0", 0)],
   [status |-> 400, body |-> RepositoryMetadata("", <<>>, 0, "0", 0)],
   [status |-> 500, body |-> RepositoryMetadata("", <<>>, 0, "0", 0)],
   [status |-> 0, body |-> RepositoryMetadata("", <<>>, 0, "0", 0)]}

\* generateSummary(namespace) returns the body; otherwise it throws
generateSummary(response) == response.status # 0 /\ Ok(response.status)

\* metadata: <<>> is null. result: what generateSummary returned. completeTimer: the pending setTimeout(() =>
\* onComplete(...), 800), <<>> when none is pending.
ProcessingInit ==
  processing \in
    [pc : {"mount"}, revision : ProcessingRevisions, strict : BOOLEAN,
     state : {"processing"}, metadata : {<<>>},
     ingestionTriggeredRef : {FALSE}, ingestCalls : {0}, ingest : {"none"},
     ingestionComplete : {FALSE}, error : {FALSE},
     currentStep : {0}, timer : {FALSE}, started : {FALSE},
     summarize : {"none"}, summarizeCalls : {0}, result : {<<>>},
     completeTimer : {<<>>}, onCompleteCalls : {0}]

ProcessingIdle ==
  processing =
    [pc |-> "idle", revision |-> "gated", strict |-> FALSE,
     state |-> "config", metadata |-> <<>>,
     ingestionTriggeredRef |-> FALSE, ingestCalls |-> 0, ingest |-> "none",
     ingestionComplete |-> FALSE, error |-> FALSE,
     currentStep |-> 0, timer |-> FALSE, started |-> FALSE,
     summarize |-> "none", summarizeCalls |-> 0, result |-> <<>>,
     completeTimer |-> <<>>, onCompleteCalls |-> 0]

ProcessingUnchanged ==
  UNCHANGED <<pure, sum, chat, variant, chatUi, env, cleanup, body, pc, repoName, stats,
              chunks, embeddingsList, vectors, i, successfulBatches, issued,
              inflight, thrown, resp, store, now>>

\* The mount effect: the ref guard, then startIngestion() up to its await.
\* (Without the guard every run of the effect would call /api/ingest.)
IngestEffectNoGuard(p) ==
  [p EXCEPT !.ingestionTriggeredRef = TRUE, !.ingest = "inflight",
            !.ingestCalls = @ + 1]

IngestEffect(p) ==
  IF p.ingestionTriggeredRef THEN p
  ELSE [p EXCEPT !.ingestionTriggeredRef = TRUE, !.ingest = "inflight",
                 !.ingestCalls = @ + 1]

\* generateAndComplete() up to its first await: the 2000 ms timer of
\* src/unnamed/part_001, the fetch of the earlier revision
GenerateAndComplete(p) ==
  IF p.revision = "gated"
  THEN [p EXCEPT !.summarize = "delay"]
  ELSE [p EXCEPT !.summarize = "inflight", !.summarizeCalls = @ + 1]

\* The animation effect: after the last step it calls generateAndComplete;
\* before, it logs the step and arms the timer of the step.
AnimationEffect(p) ==
  IF p.revision = "gated" /\ ~ p.ingestionComplete THEN p
  ELSE IF p.currentStep >= StepCount(p.revision) THEN GenerateAndComplete(p)
  ELSE [p EXCEPT !.timer = TRUE, !.started = TRUE]

\* the cleanup of the animation effect: clearTimeout(timer)
AnimationCleanup(p) == [p EXCEPT !.timer = FALSE]

\* The component mounts and its effects run; under React Strict Mode they are
\* cleaned up and run a second time.
Mount(p) ==
  LET once == AnimationEffect(IngestEffect(p))
  IN IF p.strict THEN AnimationEffect(IngestEffect(AnimationCleanup(once)))
     ELSE once

PsMount ==
  /\ processing.pc = "mount"
  /\ processing' = [Mount(processing) EXCEPT !.pc = "mounted"]
  /\ ProcessingUnchanged

\* await ingestRepository(...) settles: setIngestionComplete(true) and the
\* animation effect runs for its changed dependency, or the catch block sets
\* the error
PsIngestSettles ==
  /\ processing.pc = "mounted"
  /\ processing.ingest = "inflight"
  /\ \E response \in IngestFetches :
       IF ingestRepository(response)
       THEN IF processing.revision = "gated"
            THEN processing' =
                   AnimationEffect([processing EXCEPT !.ingest = "ok",
                                                      !.ingestionComplete = TRUE])
            ELSE processing' = [processing EXCEPT !.ingest = "ok"]
       ELSE processing' = [processing EXCEPT !.ingest = "failed", !.error = TRUE]
  /\ ProcessingUnchanged

\* the timer of the current step fires: setCurrentStep(prev => prev + 1), and
\* the animation effect runs for the new step
PsStepTimer ==
  /\ processing.pc = "mounted"
  /\ processing.timer
  /\ processing' =
       AnimationEffect([processing EXCEPT !.timer = FALSE, !.currentStep = @ + 1])
  /\ ProcessingUnchanged

\* the 2000 ms timer of generateAndComplete fires: generateSummary is called
PsSummarizeDelay ==
  /\ processing.pc = "mounted"
  /\ processing.summarize = "delay"
  /\ processing' = [processing EXCEPT !.summarize = "inflight",
                                      !.summarizeCalls = @ + 1]
  /\ ProcessingUnchanged

\* await generateSummary(repoName) settles: the 800 ms timer is armed with
\* the result, or the catch block sets the error and arms it with the default
PsSummarizeSettles ==
  /\ processing.pc = "mounted"
  /\ processing.summarize = "inflight"
  /\ \E response \in SummarizeFetches :
       IF generateSummary(response)
       THEN processing' = [processing EXCEPT !.summarize = "ok",
                                            !.result = <<response.body>>,
                                            !.completeTimer = <<response.body>>]
       ELSE processing' = [processing EXCEPT !.summarize = "failed",
                                            !.error = TRUE,
                                            !.completeTimer = FailedMetadata]
  /\ ProcessingUnchanged

\* the 800 ms timer fires: onComplete(...) is handleProcessingComplete of
\* Home, which sets the metadata and the state; ProcessingState unmounts
PsOnComplete ==
  /\ processing.pc = "mounted"
  /\ processing.completeTimer # <<>>
  /\ processing' = [processing EXCEPT !.pc = "unmounted",
                                      !.completeTimer = <<>>,
                                      !.onCompleteCalls = @ + 1,
                                      !.metadata = processing.completeTimer,
                                      !.state = "ready"]
  /\ ProcessingUnchanged

-----------------------------------------------------------------------------
(* ChatInterface: src/unnamed/part_003, which reads the streamed answer, and *)
(* the revision src/components/ChatInterface.tsx, which awaits the answer    *)
(* and replays it word by word                                              *)

ChatUiRevisions == {"stream", "simulate"}

\* what the user may have typed into the textarea
ChatInputs == {<<>>, <<" ">>, <<"q">>, <<" ", "q", "\n">>}

Message(id, role, content, isStreaming) ==
  [id |-> id, role |-> role, content |-> content, isStreaming |-> isStreaming]

\* the initial messages state; id 0 is "welcome"
Welcome == Message(0, "assistant", <<"welcome">>, FALSE)

\* `Error: ${errorMessage}`
ErrorContent == <<"Error">>

\* if (!input.trim() || isLoading) return;
Accepted(input, isLoading) == trim(input) # <<>> /\ ~ isLoading

\* prev.map(msg => msg.id === id ? f(msg) : msg), f setting content and
\* isStreaming
MapMessage(messages, id, content, isStreaming) ==
  [k \in DOMAIN messages |->
     IF messages[k].id = id
     THEN [messages[k] EXCEPT !.content = content, !.isStreaming = isStreaming]
     ELSE messages[k]]

ContentOf(messages, id) ==
  LET k == CHOOSE j \in DOMAIN messages : messages[j].id = id IN messages[k].content

ChatUiInit ==
  chatUi \in
    [pc : {"idle"}, revision : ChatUiRevisions, messages : {<<Welcome>>},
     input : {<<>>}, isLoading : {FALSE}, streamingRef : {FALSE},
     messageCounter : {0}, assistantMessageId : {0}, fetches : {0},
     inflight : {0}, length : {0}]

ChatUiIdle ==
  chatUi =
    [pc |-> "unmounted", revision |-> "stream", messages |-> <<Welcome>>,
     input |-> <<>>, isLoading |-> FALSE, streamingRef |-> FALSE,
     messageCounter |-> 0, assistantMessageId |-> 0, fetches |-> 0,
     inflight |-> 0, length |-> 0]

ChatUiUnchanged ==
  UNCHANGED <<pure, sum, chat, variant, env, cleanup, processing, body, pc,
              repoName, stats, chunks, embeddingsList, vectors, i,
              successfulBatches, issued, inflight, thrown, resp, store, now>>

\* onChange of the textarea: setInput(e.target.value)
CiType ==
  /\ chatUi.pc # "unmounted"
  /\ \E text \in ChatInputs : text # chatUi.input /\ chatUi' = [chatUi EXCEPT !.input = text]
  /\ ChatUiUnchanged

\* handleSubmit up to its await: an ignored submit changes nothing; an
\* accepted one appends the user message (and, in src/unnamed/part_003, the
\* assistant placeholder), clears the input, sets isLoading and sends the
\* request
CiSubmit ==
  /\ chatUi.pc # "unmounted"
  /\ chatUi.fetches < MaxSubmits
  /\ IF ~ Accepted(chatUi.input, chatUi.isLoading)
     THEN UNCHANGED chatUi
     ELSE LET userId == chatUi.messageCounter + 1
              userMessage == Message(userId, "user", trim(chatUi.input), FALSE)
          IN IF chatUi.revision = "stream"
             THEN chatUi' =
                    [chatUi EXCEPT
                       !.pc = "fetch", !.input = <<>>, !.isLoading = TRUE,
                       !.messageCounter = userId + 1,
                       !.assistantMessageId = userId + 1,
                       !.messages = @ \o <<userMessage,
                                            Message(userId + 1, "assistant", <<>>, TRUE)>>,
                       !.fetches = @ + 1, !.inflight = @ + 1]
             ELSE chatUi' =
                    [chatUi EXCEPT
                       !.pc = "fetch", !.input = <<>>, !.isLoading = TRUE,
                       !.messageCounter = userId,
                       !.messages = Append(@, userMessage),
                       !.fetches = @ + 1, !.inflight = @ + 1]
  /\ ChatUiUnchanged

\* The catch block (and finally) of handleSubmit: src/unnamed/part_003 turns
\* the placeholder into the error message, the other revision appends one.
CatchChatError(c) ==
  IF c.revision = "stream"
  THEN [c EXCEPT !.pc = "idle", !.isLoading = FALSE, !.inflight = @ - 1,
                 !.messages = MapMessage(@, c.assistantMessageId, ErrorContent, FALSE)]
  ELSE [c EXCEPT !.pc = "idle", !.isLoading = FALSE, !.inflight = @ - 1,
                 !.messageCounter = @ + 1,
                 !.messages = Append(@, Message(c.messageCounter + 1, "assistant",
                                                ErrorContent, FALSE))]

\* The body of a response of /api/chat: none; text that is not JSON (what
\* toTextStreamResponse of src/app/api/chat/route.ts sends for most answers);
\* the JSON text null; a JSON object with a string field response (what the
\* route of src/unnamed/part_008 sends); any other JSON value (a streamed
\* answer that happens to be JSON, such as a number or a quoted string)
ChatResponseBodies == {"none", "text", "null", "answer", "value"}

\* what fetch("/api/chat") settles with: a status (0: a rejection), a body,
\* and the number of chunks or words of the answer
ChatFetches ==
  [status : {0, 200, 400, 500}, body : ChatResponseBodies, length : 1..MaxStreamChunks]

\* simulateStreaming(undefined, []) with streamingRef.current false: the ref
\* is set and the placeholder appended, then text.split throws; the catch
\* block of handleSubmit appends the error message. The ref is never reset.
SplitThrows(c) ==
  [c EXCEPT !.pc = "idle", !.isLoading = FALSE, !.inflight = @ - 1,
            !.streamingRef = TRUE,
            !.messageCounter = @ + 2,
            !.assistantMessageId = c.messageCounter + 1,
            !.messages = @ \o <<Message(c.messageCounter + 1, "assistant", <<>>, TRUE),
                                 Message(c.messageCounter + 2, "assistant",
                                         ErrorContent, FALSE)>>]

\* await fetch(...) settles. src/unnamed/part_003 goes on to read the body
\* as a stream; the other revision awaits response.json() and calls
\* simulateStreaming(result.response, []), which returns at once while
\* streamingRef.current is set and appends the placeholder otherwise.
CiFetchSettles ==
  /\ chatUi.pc = "fetch"
  /\ \E response \in ChatFetches :
       IF response.status = 0 \/ ~ Ok(response.status)
       THEN chatUi' = CatchChatError(chatUi)
       ELSE IF chatUi.revision = "stream"
       THEN IF response.body = "none"
            THEN chatUi' = CatchChatError(chatUi)
            ELSE chatUi' = [chatUi EXCEPT !.pc = "reading", !.length = response.length]
       ELSE IF response.body \in {"none", "text", "null"}
       THEN chatUi' = CatchChatError(chatUi)
       ELSE IF chatUi.streamingRef
       THEN chatUi' = [chatUi EXCEPT !.pc = "idle", !.inflight = @ - 1]
       ELSE IF response.body = "value"
       THEN chatUi' = SplitThrows(chatUi)
       ELSE chatUi' =
              [chatUi EXCEPT
                 !.pc = "reading", !.length = response.length,
                 !.streamingRef = TRUE,
                 !.messageCounter = @ + 1,
                 !.assistantMessageId = chatUi.messageCounter + 1,
                 !.messages = Append(@, Message(chatUi.messageCounter + 1,
                                                "assistant", <<>>, TRUE))]
  /\ ChatUiUnchanged

\* a chunk of the stream arrives (the timer of the next word fires): the
\* content of the placeholder grows
CiChunk ==
  /\ chatUi.pc = "reading"
  /\ LET shown == ContentOf(chatUi.messages, chatUi.assistantMessageId) IN
     /\ Len(shown) < chatUi.length
     /\ chatUi' = [chatUi EXCEPT
                     !.messages = MapMessage(@, chatUi.assistantMessageId,
                                             Append(shown, "w"), TRUE)]
  /\ ChatUiUnchanged

\* the stream ends (the last word was shown): isStreaming and isLoading are
\* reset
CiStreamEnds ==
  /\ chatUi.pc = "reading"
  /\ LET shown == ContentOf(chatUi.messages, chatUi.assistantMessageId) IN
     /\ chatUi.revision = "simulate" => Len(shown) = chatUi.length
     /\ chatUi' = [chatUi EXCEPT
                     !.pc = "idle", !.isLoading = FALSE, !.inflight = @ - 1,
                     !.streamingRef = FALSE,
                     !.messages = MapMessage(@, chatUi.assistantMessageId, shown, FALSE)]
  /\ ChatUiUnchanged

\* await reader.read() rejects while the answer is streamed
CiReadRejects ==
  /\ chatUi.pc = "reading"
  /\ chatUi.revision = "stream"
  /\ chatUi' = CatchChatError(chatUi)
  /\ ChatUiUnchanged

-----------------------------------------------------------------------------
(* Specifications *)

\* POST /ingest of src/app/api/ingest/route.ts, MaxReq concurrent requests
Init == IngestInit("guard") /\ PureIdle /\ SumIdle /\ ChatIdle /\ Configured /\ CleanupIdle /\ ProcessingIdle /\ ChatUiIdle

Next ==
  \E r \in Req :
    \/ Receive(r)
    \/ POST(r)
    \/ Respond(r)
    \/ DescribeIndexStatsResolve(r)
    \/ DescribeIndexStatsReject(r)
    \/ LoadResolveGuard(r)
    \/ LoadReject(r)
    \/ FromDocumentsResolve(r)
    \/ FromDocumentsReject(r)

Spec == Init /\ [][Next]_vars

\* POST /ingest of the batched revision, src/unnamed/part_005
InitBatch == IngestInit("batch") /\ PureIdle /\ SumIdle /\ ChatIdle /\ Configured /\ CleanupIdle /\ ProcessingIdle /\ ChatUiIdle

NextBatch ==
  \/ Tick
  \/ \E r \in Req :
       \/ Receive(r)
       \/ POST(r)
       \/ Respond(r)
       \/ LoadResolveBatch(r)
       \/ LoadReject(r)
       \/ EmbedResolve(r)
       \/ EmbedDelay(r)
       \/ EmbedReject(r)
       \/ CreateVectors(r)
       \/ UpsertResolve(r)
       \/ UpsertDelay(r)
       \/ UpsertReject(r)

SpecBatch == InitBatch /\ [][NextBatch]_vars

\* POST /ingest of src/app/api/ingest/route.ts in a process started with any
\* part of the configuration
InitEnv ==
  /\ IngestInit("guard") /\ PureIdle /\ SumIdle /\ ChatIdle /\ CleanupIdle /\ ProcessingIdle /\ ChatUiIdle
  /\ env \in SUBSET RequiredConfig

SpecEnv == InitEnv /\ [][Next]_vars

\* POST /ingest of src/app/api/ingest/route.ts, requests sent one after the
\* other
InitRetry == IngestInit("retry") /\ PureIdle /\ SumIdle /\ ChatIdle /\ Configured /\ CleanupIdle /\ ProcessingIdle /\ ChatUiIdle

SpecRetry == InitRetry /\ [][Next]_vars

\* POST /ingest of src/unnamed/part_007, which runs ingestRepo in the
\* background
InitFire == IngestInit("fire") /\ PureIdle /\ SumIdle /\ ChatIdle /\ Configured /\ CleanupIdle /\ ProcessingIdle /\ ChatUiIdle

NextFire ==
  \E r \in Req :
    \/ Receive(r)
    \/ POST(r)
    \/ Settled(r)
    \/ LoadResolveGuard(r)
    \/ LoadReject(r)
    \/ FromDocumentsResolve(r)
    \/ FromDocumentsReject(r)

SpecFire == InitFire /\ [][NextFire]_vars

\* one run of the cleanup script, of either revision, on an index that holds
\* any of the namespaces
InitCleanup ==
  /\ IngestIdle("guard") /\ PureIdle /\ SumIdle /\ ChatIdle /\ Configured /\ ProcessingIdle /\ ChatUiIdle
  /\ CleanupInit
  /\ store \in {StoreOf(N) : N \in SUBSET CleanupNamespaces}

NextCleanup ==
  \/ CleanupStart
  \/ CleanupStatsResolve
  \/ CleanupDeleteResolve
  \/ CleanupFinalStatsResolve
  \/ CleanupReject

SpecCleanup == InitCleanup /\ [][NextCleanup]_vars

\* one ProcessingState instance, of either revision, with and without React
\* Strict Mode
InitProcessing ==
  /\ IngestInit("guard") /\ PureIdle /\ SumIdle /\ ChatIdle /\ Configured /\ CleanupIdle /\ ChatUiIdle
  /\ ProcessingInit

NextProcessing ==
  \/ PsMount
  \/ PsIngestSettles
  \/ PsStepTimer
  \/ PsSummarizeDelay
  \/ PsSummarizeSettles
  \/ PsOnComplete

SpecProcessing == InitProcessing /\ [][NextProcessing]_vars

\* one ChatInterface instance, of either revision
InitChatUi ==
  /\ IngestInit("guard") /\ PureIdle /\ SumIdle /\ ChatIdle /\ Configured /\ CleanupIdle /\ ProcessingIdle
  /\ ChatUiInit

NextChatUi ==
  \/ CiType
  \/ CiSubmit
  \/ CiFetchSettles
  \/ CiChunk
  \/ CiStreamEnds
  \/ CiReadRejects

SpecChatUi == InitChatUi /\ [][NextChatUi]_vars

\* extractRepoName applied to each URL of PureUrls
InitUrl == IngestInit("guard") /\ PureInit /\ SumIdle /\ ChatIdle /\ Configured /\ CleanupIdle /\ ProcessingIdle /\ ChatUiIdle

NextUrl == ExtractRepoName

SpecUrl == InitUrl /\ [][NextUrl]_vars

\* one POST /summarize request
InitSum == IngestInit("guard") /\ PureIdle /\ SumInit /\ ChatIdle /\ Configured /\ CleanupIdle /\ ProcessingIdle /\ ChatUiIdle

NextSum ==
  \/ SumPOST
  \/ SumEmbedResolve
  \/ SumReject
  \/ SumQueryResolve
  \/ SumGenerateResolve

SpecSum == InitSum /\ [][NextSum]_vars

\* one POST /chat request, to either revision of the route
InitChat == IngestInit("guard") /\ PureIdle /\ SumIdle /\ ChatInit /\ Configured /\ CleanupIdle /\ ProcessingIdle /\ ChatUiIdle

NextChat ==
  \/ ChatPOST
  \/ ChatEmbedResolve
  \/ ChatReject
  \/ ChatQueryResolve
  \/ ChatGenerateResolve

SpecChat == InitChat /\ [][NextChat]_vars

\* the batched revision serving MaxReq ingestions of one repository
InitIds == IngestInit("ids") /\ PureIdle /\ SumIdle /\ ChatIdle /\ Configured /\ CleanupIdle /\ ProcessingIdle /\ ChatUiIdle

SpecIds == InitIds /\ [][NextBatch]_vars

\* the UI run on one repository URL: ingestion, then the summary, then a chat
InitUi == IngestInit("guard") /\ UiInit /\ SumIdle /\ ChatIdle /\ Configured /\ CleanupIdle /\ ProcessingIdle /\ ChatUiIdle

NextUi ==
  \/ UiIngest
  \/ UiGenerateSummary
  \/ UiHandleSubmit

SpecUi == InitUi /\ [][NextUi]_vars

\* the Responder: one POST /summarize and one POST /chat, served concurrently
InitRespond == IngestInit("respond") /\ PureIdle /\ SumInit /\ ChatInit /\ Configured /\ CleanupIdle /\ ProcessingIdle /\ ChatUiIdle

NextRespond == NextSum \/ NextChat

SpecRespond == InitRespond /\ [][NextRespond]_vars

-----------------------------------------------------------------------------
(* Vocabulary of the properties *)

\* request r has been handled past await req.json()
Handled(r) == pc[r] \notin {"idle", "json"}

\* the operations of the calls r has issued
IssuedOps(r) == {issued[r][k].op : k \in 1..Len(issued[r])}

IngestionOps == {"load", "fromDocuments", "embedDocuments", "upsert"}

\* the records the guarded revision wrote for request r
WrittenBy(r) == {x \in store : x.id[1] = "uuid" /\ x.id[2] = r}

HasNonAscii(s) == \E k \in 1..Len(s) : s[k] = EACUTE

\* the stats r read report one or more records in r's namespace
SawRecords(r) ==
  /\ stats[r].read
  /\ repoName[r] \in DOMAIN stats[r].namespaces
  /\ stats[r].namespaces[repoName[r]].recordCount >= 1

\* r passed the guard and fromDocuments wrote all of its chunks
IngestedFully(r) ==
  /\ pc[r] \in {"returned", "done"}
  /\ thrown[r] = NoError
  /\ "fromDocuments" \in IssuedOps(r)

-----------------------------------------------------------------------------
(* Properties of the guarded route, checked under Spec *)

\* C1: a request whose describeIndexStats result reports one or more records
\* in its namespace returns from ingestRepo without a loader, embedding or
\* upsert call, writes no record, and is answered 200.
C1_SkipGuard ==
  \A r \in Req :
    SawRecords(r) =>
      /\ IssuedOps(r) \cap IngestionOps = {}
      /\ WrittenBy(r) = {}
      /\ pc[r] \in {"returned", "done"}
      /\ thrown[r] = NoError
      /\ pc[r] = "done" => resp[r].status = 200 /\ resp[r].success

C1_Witness ==
  \E r \in Req : SawRecords(r) /\ pc[r] = "done" /\ resp[r].status = 200

\* C2: when two requests for one namespace have both passed the guard and
\* both written, the namespace holds the records of both: at least the sum of
\* their chunk counts, which is more than a single ingestion wrote.
C2_RaceDuplicates ==
  \A r1 \in Req : \A r2 \in Req \ {r1} :
    (IngestedFully(r1) /\ IngestedFully(r2) /\ repoName[r1] = repoName[r2]) =>
      RecordCount(store, repoName[r1]) >= chunks[r1] + chunks[r2]

\* Both requests read the stats of the empty namespace, both wrote a non-empty
\* repository, and the namespace holds more than either wrote.
C2_Witness ==
  \E r1 \in Req : \E r2 \in Req \ {r1} :
    /\ IngestedFully(r1) /\ IngestedFully(r2)
    /\ repoName[r1] = repoName[r2]
    /\ body[r1].repoUrl = body[r2].repoUrl
    /\ stats[r1].read /\ repoName[r1] \notin DOMAIN stats[r1].namespaces
    /\ stats[r2].read /\ repoName[r2] \notin DOMAIN stats[r2].namespaces
    /\ chunks[r1] > 0 /\ chunks[r2] > 0
    /\ RecordCount(store, repoName[r1]) > chunks[r1]
    /\ RecordCount(store, repoName[r1]) > chunks[r2]
    /\ resp[r1].status = 200 /\ resp[r2].status = 200

\* C3: a parsed body whose repoUrl does not contain "github.com" is answered
\* 400 with success = false, and ingestRepo is not invoked: no call is issued.
C3_NoGithubIs400 ==
  \A r \in Req :
    (Handled(r) /\ body[r].json
       /\ ~ (body[r].urlIsString /\ includes(body[r].repoUrl, GITHUB))) =>
      /\ pc[r] = "done"
      /\ resp[r].status = 400
      /\ resp[r].success = FALSE
      /\ issued[r] = <<>>
      /\ repoName[r] = <<>>
      /\ thrown[r] = NoError

C3_Witness ==
  \E r \in Req :
    /\ pc[r] = "done"
    /\ body[r].json /\ body[r].repoUrl = UrlLab /\ body[r].token = <<"t">>
    /\ resp[r].status = 400

\* C4: a request whose repoUrl or token holds a character outside \x00-\x7F
\* issues no external call and writes no record; it ends with status 400 or
\* 500, never 200.
C4_NonAsciiAborts ==
  \A r \in Req :
    (Handled(r) /\ body[r].json /\ body[r].urlIsString
       /\ (HasNonAscii(body[r].repoUrl) \/ HasNonAscii(body[r].token))) =>
      /\ issued[r] = <<>>
      /\ WrittenBy(r) = {}
      /\ pc[r] \in {"catch", "done"}
      /\ pc[r] = "done" => resp[r].status \in {400, 500} /\ ~ resp[r].success

\* ingestRepo was entered with a non-ASCII URL and threw; the answer is 500
C4_Witness ==
  \E r \in Req :
    /\ pc[r] = "done"
    /\ body[r].repoUrl = UrlNonAscii
    /\ thrown[r] = ErrUrlNonAscii
    /\ resp[r].status = 500
    /\ store = {}

\* the body has the shape {success, message, error?}
ResponseShape(x) ==
  /\ x.success \in BOOLEAN
  /\ x.message \in {"Validation failed", "Ingestion completed successfully.",
                    "Ingestion failed", "Failed to start ingestion"}
  /\ x.success <=> x.error = NoError

\* C6 as stated: 400 if the request fails validation, 500 if ingestion fails,
\* 200 in every other case; success exactly when the status is 200.
C6_StatusAsStated ==
  \A r \in Req :
    pc[r] = "done" =>
      /\ resp[r].status =
           IF ~ (body[r].json /\ IngestRequestSchema(body[r])) THEN 400
           ELSE IF thrown[r] # NoError THEN 500
           ELSE 200
      /\ ResponseShape(resp[r])
      /\ resp[r].success <=> resp[r].status = 200

\* C6 amended: 500 if the body cannot be read as JSON, 400 if the parsed body
\* fails the schema, 500 if ingestRepo throws, 200 otherwise; success exactly
\* when the status is 200.
C6_Status ==
  \A r \in Req :
    pc[r] = "done" =>
      /\ resp[r].status =
           IF ~ body[r].json THEN 500
           ELSE IF ~ (body[r].urlIsString /\ IsUrl(body[r].repoUrl)
                        /\ includes(body[r].repoUrl, GITHUB)
                        /\ Len(body[r].token) >= 1) THEN 400
           ELSE IF thrown[r] # NoError THEN 500
           ELSE 200
      /\ ResponseShape(resp[r])
      /\ resp[r].success <=> resp[r].status = 200

\* each of the four outcomes has been answered
C6_Witness ==
  /\ \E r \in Req : pc[r] = "done" /\ ~ body[r].json /\ resp[r].status = 500
  /\ \E r \in Req : pc[r] = "done" /\ body[r].json /\ resp[r].status = 200

-----------------------------------------------------------------------------
(* Properties of extractRepoName, checked under SpecUrl *)

\* the position of the last "/" of s, 0 when s has none
LastSlash(s) ==
  LET at == {k \in 1..Len(s) : s[k] = "/"} IN
  IF at = {} THEN 0 ELSE CHOOSE k \in at : \A m \in at : m <= k

\* what follows the last "/" of s
LastSegment(s) == SubSeq(s, LastSlash(s) + 1, Len(s))

\* seg with one trailing ".git" removed
StripGit(seg) ==
  IF EndsWith(seg, DOTGIT) THEN SubSeq(seg, 1, Len(seg) - Len(DOTGIT)) ELSE seg

\* C5 as stated: the last segment with a trailing ".git" removed, and
\* "default" when nothing follows the last "/".
C5_RepoNameAsStated ==
  pure.pc = "extracted" =>
    pure.name =
      IF LastSlash(pure.url) = 0 \/ LastSegment(pure.url) = <<>> THEN DEFAULT
      ELSE StripGit(LastSegment(pure.url))

\* C5 amended: as stated, except that a last segment that is exactly ".git" is
\* returned whole. "https://github.com/o/r" and "https://github.com/o/r.git"
\* both give "r".
C5_RepoName ==
  pure.pc = "extracted" =>
    /\ pure.name =
         IF LastSlash(pure.url) = 0 \/ LastSegment(pure.url) = <<>> THEN DEFAULT
         ELSE IF LastSegment(pure.url) = DOTGIT THEN DOTGIT
         ELSE StripGit(LastSegment(pure.url))
    /\ pure.url \in {UrlR, UrlRGit} => pure.name = <<"r">>

C5_Witness ==
  /\ pure.pc = "extracted"
  /\ pure.url = UrlRGit
  /\ pure.name = <<"r">>

-----------------------------------------------------------------------------
(* Properties of the batched route, checked under SpecBatch *)

UpsertFailed(r) == thrown[r].kind = "Failed to upsert batch"

\* the batch numbers of the calls of operation op that r has issued, in order
BatchesIssued(r, op) ==
  LET calls == SelectSeq(issued[r], LAMBDA c : c.op = op) IN
  [k \in 1..Len(calls) |-> calls[k].batch]

\* C7: when upsert batch k > 1 has failed, the records of batches 1..k-1 are
\* in the namespace and the request is answered 500.
C7_NoRollback ==
  \A r \in Req :
    (UpsertFailed(r) /\ thrown[r].batchNum > 1) =>
      /\ Stored(repoName[r],
                SubSeq(vectors[r], 1, (thrown[r].batchNum - 1) * batchSize))
           \subseteq store
      /\ pc[r] = "done" => resp[r].status = 500 /\ ~ resp[r].success

C7_Witness ==
  \E r \in Req :
    /\ UpsertFailed(r) /\ thrown[r].batchNum > 1
    /\ pc[r] = "done" /\ resp[r].status = 500
    /\ RecordCount(store, repoName[r]) >= batchSize

\* C8: when the upsert of batch k of N has failed, the upsert calls issued are
\* those of batches 1..k and no other, the error names k and N, and it is the
\* error of the response.
C8_FailedBatchNamed ==
  \A r \in Req :
    UpsertFailed(r) =>
      LET k == thrown[r].batchNum IN
      /\ BatchesIssued(r, "upsert") = [b \in 1..k |-> b]
      /\ successfulBatches[r] = k - 1
      /\ thrown[r].totalBatches = Ceil(Len(vectors[r]), batchSize)
      /\ k <= thrown[r].totalBatches
      /\ inflight[r] = {}
      /\ pc[r] \in {"catch", "done"}
      /\ pc[r] = "done" => resp[r].error = thrown[r]

\* batch 2 of 3 failed
C8_Witness ==
  \E r \in Req :
    /\ UpsertFailed(r)
    /\ thrown[r].batchNum = 2 /\ thrown[r].totalBatches = 3
    /\ pc[r] = "done"

\* C9: at most one call of an ingestion is in flight; embedding batches and
\* then upsert batches are issued in increasing order, each after the one
\* before it has settled; when an upsert batch is issued every embedding batch
\* has been issued and has settled.
C9_Sequential ==
  \A r \in Req :
    /\ Cardinality(inflight[r]) <= 1
    /\ \A k \in 1..(Len(issued[r]) - 1) : issued[r][k] \notin inflight[r]
    /\ LET e == BatchesIssued(r, "embedDocuments")
           u == BatchesIssued(r, "upsert")
       IN /\ e = [b \in 1..Len(e) |-> b]
          /\ u = [b \in 1..Len(u) |-> b]
          /\ \A p \in 1..Len(issued[r]) : \A q \in (p + 1)..Len(issued[r]) :
               ~ (issued[r][p].op = "upsert" /\ issued[r][q].op = "embedDocuments")
          /\ pc[r] \in {"upsert", "upsertDelay"} =>
               /\ Len(e) = Ceil(Len(vectors[r]), embeddingBatchSize)
               /\ Len(embeddingsList[r]) = 0
               /\ \A c \in inflight[r] : c.op = "upsert"

\* the second upsert batch is in flight after several embedding batches
C9_Witness ==
  \E r \in Req :
    /\ pc[r] = "upsert"
    /\ inflight[r] = {Call("upsert", 2)}
    /\ Len(BatchesIssued(r, "embedDocuments")) >= 3

-----------------------------------------------------------------------------
(* Properties of POST /summarize, checked under SpecSum *)

\* no match carries text: the context assembled from the query is empty
NoMatchHasText == \A k \in 1..Len(sum.matches) : sum.matches[k].text = <<>>

\* C10: when the query has resolved and no match carries text (in particular
\* when there is no match), the answer is 200 with the canned summary, empty
\* techStack and patterns and stats {files: 0, lines: "0k", languages: 0}, and
\* generateText is not called.
C10_EmptyContextCanned ==
  (sum.queried /\ NoMatchHasText) =>
    /\ sum.context = <<>>
    /\ sum.pc = "done"
    /\ sum.resp.status = 200
    /\ sum.resp.summary = NoContextSummary
    /\ sum.resp.techStack = <<>>
    /\ sum.resp.patterns = <<>>
    /\ sum.resp.stats = [files |-> 0, lines |-> <<0, -1>>, languages |-> 0]
    /\ \A k \in 1..Len(sum.calls) : sum.calls[k] # "generateText"

\* a match with a source and no text: the context is empty though there is a
\* match
C10_Witness ==
  /\ sum.queried
  /\ NoMatchHasText
  /\ Len(sum.matches) >= 1
  /\ sum.matches[1].source = SourceATs
  /\ sum.pc = "done"
  /\ sum.resp.status = 200

\* generateText has resolved and the request is answered
Generated == sum.pc = "done" /\ sum.generated

\* the distinct sources of the matches, absent sources left out
StatedSources ==
  {sum.matches[k].source :
     k \in {m \in 1..Len(sum.matches) : sum.matches[m].source # <<>>}}

\* what follows the last "." of a source, the whole source when it has none
DotSuffix(src) ==
  LET dots == {k \in 1..Len(src) : src[k] = "."} IN
  IF dots = {} THEN src
  ELSE SubSeq(src, (CHOOSE k \in dots : \A m \in dots : m <= k) + 1, Len(src))

\* the languages the extension table gives for the suffixes of the sources
StatedLanguages ==
  {e[2] : e \in {t \in LanguageTable :
                   \E src \in StatedSources : DotSuffix(src) = t[1]}}

\* C11 as stated: for a non-empty context, stats.files is the number of
\* distinct sources and stats.languages the number of distinct languages the
\* extension table gives for the sources' suffixes; a suffix the table does
\* not hold counts for nothing.
C11_StatsAsStated ==
  Generated =>
    /\ sum.resp.stats.files = Cardinality(StatedSources)
    /\ sum.resp.stats.languages = Cardinality(StatedLanguages)

\* one match of source "x.constructor": the table has no such extension and
\* the answer counts one language
C11_Witness ==
  /\ Generated
  /\ Len(sum.matches) = 1
  /\ sum.matches[1].source = SourceCtor
  /\ sum.resp.stats.files = 1
  /\ sum.resp.stats.languages = 1

\* the text is JSON alone or JSON in a fence, bare or tagged json
WrappedTexts == {PlainText, BareFenced, JsonFenced}

AllStrings(f) ==
  f.type = "array" /\ \A k \in 1..Len(f.v) : f.v[k].type = "string"

Values(f) == [k \in 1..Len(f.v) |-> f.v[k].v]

\* the items of an array field that are strings, in order
StringItems(f) ==
  LET kept == SelectSeq(f.v, LAMBDA x : x.type = "string") IN
  [k \in 1..Len(kept) |-> kept[k].v]

\* the fields of the parsed JSON have the types of the response format
TypedAsFormat ==
  /\ sum.text.json
  /\ sum.text.chars \in WrappedTexts
  /\ sum.text.summary.type = "string"
  /\ AllStrings(sum.text.techStack)
  /\ AllStrings(sum.text.patterns)

\* C12 as stated: valid JSON, plain or fenced, with a string summary and
\* string arrays techStack and patterns: the response carries these values.
C12_ExactAsStated ==
  (Generated /\ TypedAsFormat) =>
    /\ sum.resp.summary = sum.text.summary.v[1]
    /\ sum.resp.techStack = Values(sum.text.techStack)
    /\ sum.resp.patterns = Values(sum.text.patterns)

\* C12 amended: the same for a summary that is a non-empty string; an empty
\* summary is replaced by the default summary.
C12_Exact ==
  (Generated /\ TypedAsFormat) =>
    /\ sum.resp.status = 200
    /\ sum.resp.summary =
         IF sum.text.summary.v # <<"">> THEN sum.text.summary.v[1]
         ELSE "A full-stack application for managing and analyzing codebases with AI-powered insights."
    /\ sum.resp.techStack = Values(sum.text.techStack)
    /\ sum.resp.patterns = Values(sum.text.patterns)

\* {"summary":"x","techStack":["Go"],"patterns":["p"]} in a json fence
C12_Witness ==
  /\ Generated
  /\ sum.text.chars = JsonFenced
  /\ sum.text.summary = StrVal("x")
  /\ sum.resp.summary = "x"
  /\ sum.resp.techStack = <<"Go">>
  /\ sum.resp.patterns = <<"p">>

ParsedJson == sum.text.json /\ sum.text.chars \in WrappedTexts

\* C14 as stated: each field that is well formed (a non-empty string summary,
\* an array of strings) takes the model's value, every other field takes its
\* default.
C14_PerFieldAsStated ==
  (Generated /\ ParsedJson) =>
    /\ sum.resp.summary =
         IF sum.text.summary.type = "string" /\ sum.text.summary.v # <<"">>
         THEN sum.text.summary.v[1]
         ELSE "A full-stack application for managing and analyzing codebases with AI-powered insights."
    /\ sum.resp.techStack =
         IF AllStrings(sum.text.techStack) THEN Values(sum.text.techStack)
         ELSE SeqOf(uniqueLanguages(sum.matches))
    /\ sum.resp.patterns =
         IF AllStrings(sum.text.patterns) THEN Values(sum.text.patterns)
         ELSE <<"Component-based Architecture", "REST API", "Event-driven">>

\* C14 amended: a summary that is a non-empty string and a techStack or
\* patterns that is an array take the model's value, an array without its
\* items that are no strings; a field that is absent or of another type takes
\* its default, whatever the other fields are.
C14_PerField ==
  (Generated /\ ParsedJson) =>
    /\ sum.resp.summary =
         IF sum.text.summary.type = "string" /\ sum.text.summary.v # <<"">>
         THEN sum.text.summary.v[1]
         ELSE "A full-stack application for managing and analyzing codebases with AI-powered insights."
    /\ sum.resp.techStack =
         IF sum.text.techStack.type = "array" THEN StringItems(sum.text.techStack)
         ELSE SeqOf(uniqueLanguages(sum.matches))
    /\ sum.resp.patterns =
         IF sum.text.patterns.type = "array" THEN StringItems(sum.text.patterns)
         ELSE <<"Component-based Architecture", "REST API", "Event-driven">>

\* no summary, a techStack with an item that is no string, well-formed
\* patterns: default summary, filtered techStack, the model's patterns
C14_Witness ==
  /\ Generated
  /\ ParsedJson
  /\ sum.text.summary = Absent
  /\ sum.text.techStack = ArrVal(<<Item("string", "p"), Item("number", "1")>>)
  /\ sum.resp.summary # "x"
  /\ sum.resp.techStack = <<"p">>
  /\ sum.resp.patterns = <<"p">>

-----------------------------------------------------------------------------
(* Properties of POST /chat, checked under SpecChat *)

\* the texts of the matches that carry one, in order, a blank line between
\* each two
RECURSIVE TextsJoined(_)
TextsJoined(ms) ==
  IF Len(ms) = 0 THEN <<>>
  ELSE LET rest == TextsJoined(Tail(ms)) IN
       IF Head(ms).text = <<>> THEN rest
       ELSE IF rest = <<>> THEN Head(ms).text
       ELSE Head(ms).text \o <<"\n", "\n">> \o rest

\* C15: when the query has resolved with fewer than topK matches (none
\* included), the context is the text of all of them in the order returned,
\* joined by blank lines; the completion model is called with it, and the
\* request is answered 200 unless an awaited call rejects.
C15_FewerThanTopK ==
  (chat.queried /\ Len(chat.matches) < topK(chat.revision)) =>
    /\ chat.context = TextsJoined(chat.matches)
    /\ chat.completion.called
    /\ chat.completion.context = TextsJoined(chat.matches)
    /\ chat.rejected \in {"", "generateText"}
    /\ (chat.pc = "done" /\ chat.rejected = "") => chat.resp.status = 200

\* topK = 5 and three matches, each with text: all three are the context
C15_Witness ==
  /\ chat.queried
  /\ chat.revision = "generate"
  /\ Len(chat.matches) = 3
  /\ \A k \in 1..3 : chat.matches[k].text # <<>>
  /\ chat.matches[1] # chat.matches[2]
  /\ chat.pc = "done"
  /\ chat.resp.status = 200
  /\ chat.resp.snippets = 3

\* the supplied conversationHistory, the empty list when none is supplied
SuppliedHistory ==
  IF chat.body.history.kind = "array" THEN chat.body.history.v ELSE <<>>

\* C16: the messages passed to the completion model are the supplied history
\* in its order followed by one user message carrying the request's message.
C16_MessagesAppended ==
  chat.completion.called =>
    LET msgs == chat.completion.messages IN
    /\ Len(msgs) = Len(SuppliedHistory) + 1
    /\ \A k \in 1..Len(SuppliedHistory) : msgs[k] = SuppliedHistory[k]
    /\ msgs[Len(msgs)] = [role |-> "user", content |-> chat.body.message]

\* a history of two messages: three messages are passed
C16_Witness ==
  /\ chat.completion.called
  /\ Len(SuppliedHistory) = 2
  /\ chat.completion.messages =
       <<Msg("user", "q1"), Msg("assistant", "a1"), Msg("user", "q")>>

-----------------------------------------------------------------------------
(* Properties of the Responder's validation, checked under SpecRespond *)

\* the parsed chat body fails the schema
InvalidChatBody ==
  \/ ~ chat.body.messageIsString
  \/ chat.body.message = ""
  \/ ~ chat.body.namespaceIsString
  \/ chat.body.history.kind = "other"
  \/ \E k \in 1..Len(chat.body.history.v) :
       chat.body.history.v[k].role \notin {"user", "assistant"}

\* C17: a parsed body of POST /chat or POST /summarize that fails the schema
\* is answered 400 and no embedding, query or completion call is made.
C17_ValidationNoCalls ==
  /\ (chat.pc # "json" /\ chat.body.json /\ InvalidChatBody) =>
       /\ chat.pc = "done"
       /\ chat.resp.status = 400
       /\ chat.calls = <<>>
       /\ ~ chat.completion.called
  /\ (sum.pc # "json" /\ sum.body.json /\ ~ sum.body.namespaceIsString) =>
       /\ sum.pc = "done"
       /\ sum.resp.status = 400
       /\ sum.calls = <<>>

\* a chat body whose history holds a role "system" and a summarize body whose
\* namespace is no string have both been answered 400
C17_Witness ==
  /\ chat.pc = "done"
  /\ chat.body.message = "q"
  /\ chat.body.namespaceIsString
  /\ chat.body.history = History(<<Msg("user", "q1"), Msg("system", "s")>>)
  /\ chat.resp.status = 400
  /\ sum.pc = "done"
  /\ ~ sum.body.namespaceIsString
  /\ sum.resp.status = 400

-----------------------------------------------------------------------------
(* Properties of the namespace the UI sends, checked under SpecUi *)

\* C18 as stated: for every URL ingestion accepts, the namespace the UI sends
\* to /summarize and the one it sends to /chat are the namespace
\* extractRepoName gave the ingestion.
C18_NamespaceAgreesAsStated ==
  pure.pc = "chatted" =>
    /\ pure.summarizeNs = pure.name
    /\ pure.chatNs = pure.name

\* "https://github.com/o/o.github.io" is ingested into "o.github.io"; the UI
\* asks /summarize and /chat for "ohub.io"
C18_Witness ==
  /\ pure.pc = "chatted"
  /\ pure.url = UrlPages
  /\ pure.name = <<"o", ".", "g", "i", "t", "h", "u", "b", ".", "i", "o">>
  /\ pure.summarizeNs = <<"o", "h", "u", "b", ".", "i", "o">>
  /\ pure.chatNs = <<"o", "h", "u", "b", ".", "i", "o">>

-----------------------------------------------------------------------------
(* Properties of the host check of POST /ingest, checked under Spec *)

\* the host of a URL: what stands between "https://" and the next "/"; no
\* host when the string does not start with the scheme
Host(url) ==
  IF ~ StartsWith(url, HTTPS) THEN <<>>
  ELSE LET rest == SubSeq(url, Len(HTTPS) + 1, Len(url))
           at == {k \in 1..Len(rest) : rest[k] = "/"}
       IN IF at = {} THEN rest ELSE SubSeq(rest, 1, Min(at) - 1)

\* C19 as stated: a request whose repoUrl has a host other than github.com is
\* rejected (status 400 or 500) and has issued no call: neither the loader nor
\* the store is reached.
C19_HostCheckedAsStated ==
  \A r \in Req :
    (Handled(r) /\ body[r].json /\ body[r].urlIsString
       /\ Host(body[r].repoUrl) # GITHUB) =>
      /\ issued[r] = <<>>
      /\ pc[r] \in {"catch", "done"}
      /\ pc[r] = "done" => resp[r].status \in {400, 500}

\* "https://gitlab.com/github.com/r" was accepted: the index stats were read,
\* the loader was called, and the request was answered 200
C19_Witness ==
  \E r \in Req :
    /\ body[r].repoUrl = UrlLabGithub
    /\ Host(body[r].repoUrl) = GITLAB
    /\ stats[r].read
    /\ "load" \in IssuedOps(r)
    /\ pc[r] = "done"
    /\ resp[r].status = 200

-----------------------------------------------------------------------------
(* Properties of the record ids of the batched route, checked under SpecIds *)

\* the records request r has upserted: those of its successful batches
Upserted(r) ==
  SubSeq(vectors[r], 1, MinOf(successfulBatches[r] * batchSize, Len(vectors[r])))

\* C20 as stated: the records upserted into a namespace have pairwise
\* different ids, within one ingestion and across two ingestions.
C20_IdsUniqueAsStated ==
  /\ \A r \in Req : \A k1 \in 1..Len(Upserted(r)) : \A k2 \in 1..Len(Upserted(r)) :
       k1 # k2 => Upserted(r)[k1].id # Upserted(r)[k2].id
  /\ \A r1 \in Req : \A r2 \in Req \ {r1} :
       repoName[r1] = repoName[r2] =>
         \A k1 \in 1..Len(Upserted(r1)) : \A k2 \in 1..Len(Upserted(r2)) :
           Upserted(r1)[k1].id # Upserted(r2)[k2].id

\* two ingestions of one repository built their records in the same
\* millisecond; each has upserted its first batch of batchSize records under
\* the same ids, and the namespace holds batchSize records, not twice as many
C20_Witness ==
  \E r1 \in Req : \E r2 \in Req \ {r1} :
    /\ repoName[r1] = repoName[r2]
    /\ Len(Upserted(r1)) = batchSize
    /\ Len(Upserted(r2)) = batchSize
    /\ Upserted(r1)[1].id = Upserted(r2)[1].id
    /\ RecordCount(store, repoName[r1]) = batchSize

-----------------------------------------------------------------------------
(* Properties of the configuration, checked under SpecEnv *)

\* request r ran ingestRepo past its input checks, to where the clients are
\* built from process.env
ReachedClients(r) ==
  /\ Handled(r)
  /\ body[r].json
  /\ IngestRequestSchema(body[r])
  /\ ingestRepoChecks(body[r].repoUrl, body[r].token) = NoError

\* C21: the absence of a required configuration value is fatal when the
\* process (the module) starts, and is never first seen as the failure of a
\* request: a request that got as far as the clients of ingestRepo was served
\* by a process that has every required value.
C21_ConfigFatalAsStated ==
  \A r \in Req : ReachedClients(r) => Configured

\* the vector-store API key is absent, the module was loaded, and the request
\* was answered 500 "Ingestion failed" with the constructor's error
C21_Witness ==
  \E r \in Req :
    /\ PINECONE_API_KEY \notin env
    /\ ReachedClients(r)
    /\ resp[r] = IngestionFailed(ErrConfiguration(PINECONE_API_KEY))

-----------------------------------------------------------------------------
(* Properties of the batched ingestion, checked under SpecBatch *)

\* C22: when embedding generation fails for a batch, the ingestion is aborted
\* with the embedding error and has upserted no record: it issued no upsert
\* and counted no batch, the caller is answered 500 with that error, and a
\* store no other request has touched is as it was before the request.
C22_EmbeddingFailureAborts ==
  \A r \in Req :
    thrown[r].kind = "Embedding generation failed" =>
      /\ pc[r] \in {"catch", "done"}
      /\ "upsert" \notin IssuedOps(r)
      /\ successfulBatches[r] = 0
      /\ vectors[r] = <<>>
      /\ pc[r] = "done" => resp[r] = IngestionFailed(thrown[r])
      /\ (\A q \in Req \ {r} : issued[q] = <<>>) => store = {}

\* the second embedding batch of a request failed after the first had
\* succeeded, and the request was answered
C22_Witness ==
  \E r \in Req :
    /\ thrown[r].kind = "Embedding generation failed"
    /\ Len(embeddingsList[r]) = embeddingBatchSize
    /\ Len(issued[r]) >= 3
    /\ resp[r].status = 500

-----------------------------------------------------------------------------
(* Properties of the answer of POST /ingest, checked under SpecFire *)

\* C23: POST /ingest answers success = true only after ingestRepo has run to
\* its end without throwing (every record upserted, or the request skipped by
\* the guard), and an error of ingestRepo is always in the answer to the
\* caller, never only logged.
C23_SuccessAfterIngestionAsStated ==
  \A r \in Req :
    /\ (resp[r] # NoResp /\ resp[r].success) =>
         /\ pc[r] = "done"
         /\ thrown[r] = NoError
         /\ inflight[r] = {}
    /\ (pc[r] = "done" /\ thrown[r] # NoError) =>
         /\ ~ resp[r].success
         /\ resp[r].error = thrown[r]

\* a request was answered success = true, and afterwards its ingestion
\* failed having written part of its records
C23_Witness ==
  \E r \in Req :
    /\ resp[r] = IngestionStarted
    /\ pc[r] = "done"
    /\ thrown[r] = ErrFromDocuments
    /\ WrittenBy(r) # {}

-----------------------------------------------------------------------------
(* Properties of the cleanup script, checked under SpecCleanup *)

\* the namespaces the delete calls of the script addressed, in order
Deleted ==
  [k \in 1..Cardinality({j \in DOMAIN cleanup.calls : cleanup.calls[j].op = "deleteAll"}) |->
     cleanup.calls[k + 1].ns]

\* C24: a run of the cleanup script that ends without error has called
\* deleteAll once for every namespace of the initial index stats, one at a
\* time; with no namespace it makes no delete call; when a deleteAll fails the
\* error is rethrown and the namespaces after it are left untouched.
C24_CleanupAsStated ==
  /\ Cardinality(cleanup.inflight) <= 1
  /\ cleanup.pc = "done" =>
       /\ ~ cleanup.thrown
       /\ Deleted = cleanup.namespaces
       /\ \A a, b \in DOMAIN Deleted : Deleted[a] = Deleted[b] => a = b
  /\ (cleanup.pc = "done" /\ cleanup.namespaces = <<>>) => Len(cleanup.calls) = 1
  /\ (cleanup.pc = "failed" /\ Len(Deleted) >= 1) =>
       /\ cleanup.thrown
       /\ Deleted = SubSeq(cleanup.namespaces, 1, Len(Deleted))
       /\ \A k \in DOMAIN cleanup.namespaces :
            k >= Len(Deleted) /\ cleanup.calls[Len(cleanup.calls)].op = "deleteAll" =>
              StoreOf({cleanup.namespaces[k]}) \subseteq store

\* the run of the revision that calls index.deleteAll() ended without error
\* on an index of two named namespaces, and both still hold their records
C24_Witness ==
  /\ cleanup.pc = "done"
  /\ cleanup.revision = "index"
  /\ Len(cleanup.namespaces) = 2
  /\ Deleted = <<DefaultNamespace>>
  /\ StoreOf({<<"r">>, <<"l", "a", "b">>}) \subseteq store

-----------------------------------------------------------------------------
(* Properties of ProcessingState and Home, checked under SpecProcessing *)

\* C25: /api/summarize is requested only after /api/ingest has returned
\* success; when ingest fails the step animation never starts, summarize is
\* never requested and onComplete is never called.
C25_SummarizeAfterIngestAsStated ==
  /\ processing.summarize # "none" => processing.ingest = "ok"
  /\ processing.ingest = "failed" =>
       /\ ~ processing.started
       /\ processing.currentStep = 0
       /\ processing.summarizeCalls = 0
       /\ processing.onCompleteCalls = 0

\* in the revision whose animation starts with the component, ingest failed,
\* and yet summarize was requested and onComplete took the page to ready
C25_Witness ==
  /\ processing.revision = "ungated"
  /\ processing.ingest = "failed"
  /\ processing.summarizeCalls = 1
  /\ processing.onCompleteCalls = 1
  /\ processing.state = "ready"

\* C26: per ProcessingState instance /api/ingest is called at most once, also
\* when the mount effect runs twice under React Strict Mode: the ref is set
\* before the first call, and a later run of the effect returns at the guard.
C26_IngestAtMostOnce ==
  /\ processing.ingestCalls <= 1
  /\ processing.ingestCalls = 1 <=> processing.ingestionTriggeredRef
  /\ processing.pc \in {"mounted", "unmounted"} => processing.ingestCalls = 1

\* the effects ran twice under Strict Mode and the one ingest call returned
C26_Witness ==
  /\ processing.strict
  /\ processing.pc = "mounted"
  /\ processing.ingestCalls = 1
  /\ processing.ingest = "ok"

\* C29: in a processing run that reaches the last animation step,
\* /api/summarize is requested exactly once and onComplete is called exactly
\* once: with the result of summarize on success, with the default metadata
\* when summarize fails; the page is then ready with non-null metadata.
C29_OneSummaryOneCompletion ==
  /\ processing.summarizeCalls <= 1
  /\ processing.onCompleteCalls <= 1
  /\ (processing.started /\ processing.currentStep >= StepCount(processing.revision)) =>
       /\ processing.summarize # "none"
       /\ processing.summarize # "delay" => processing.summarizeCalls = 1
       /\ processing.summarize \in {"ok", "failed"} =>
            (processing.completeTimer # <<>>) # (processing.onCompleteCalls = 1)
  /\ processing.onCompleteCalls = 1 =>
       /\ processing.state = "ready"
       /\ processing.metadata # <<>>
       /\ processing.summarize = "ok" =>
            /\ processing.metadata = processing.result
            /\ processing.result # <<>>
       /\ processing.summarize = "failed" =>
            processing.metadata =
              <<[summary |-> "Failed to generate summary. Please try again.",
                 techStack |-> <<>>, patterns |-> <<>>,
                 stats |-> [files |-> 0, lines |-> "0k", languages |-> 0]]>>
  /\ processing.state = "ready" => processing.onCompleteCalls = 1

\* summarize failed after the last step, and the page is ready with the
\* default metadata
C29_Witness ==
  /\ processing.currentStep = StepCount(processing.revision)
  /\ processing.summarize = "failed"
  /\ processing.summarizeCalls = 1
  /\ processing.onCompleteCalls = 1
  /\ processing.state = "ready"
  /\ processing.metadata = FailedMetadata

-----------------------------------------------------------------------------
(* Properties of a retry after a partial ingestion, checked under SpecRetry *)

\* the ingestion of q failed in fromDocuments having written one or more
\* records, and r is a later request for the same repository
RetryOf(q, r) ==
  /\ q < r
  /\ thrown[q].kind = "PineconeStore.fromDocuments rejected"
  /\ WrittenBy(q) # {}
  /\ Handled(r)
  /\ body[r].json
  /\ body[r].repoUrl = body[q].repoUrl

\* the namespace of q holds what q wrote, which is less than all its chunks
PartiallyIngested(q) ==
  /\ {x \in store : x.ns = repoName[q]} = WrittenBy(q)
  /\ Cardinality(WrittenBy(q)) < chunks[q]

\* C27 as stated: after an ingestion that failed having committed a record,
\* every later POST /ingest for the same repository is skipped by the guard
\* and answers 200 success, and the namespace stays partially ingested.
C27_RetrySkippedAsStated ==
  \A q, r \in Req :
    (RetryOf(q, r) /\ pc[r] = "done") =>
      /\ SawRecords(r)
      /\ resp[r].status = 200 /\ resp[r].success
      /\ PartiallyIngested(q)

\* C27: after an ingestion that failed having committed a record, no later
\* POST /ingest for the same repository loads or writes anything, so the
\* namespace stays partially ingested; a later request that reads the index
\* stats is skipped by the guard and answered 200 success, and one that
\* fails before or in reading them is answered 500.
C27_RetrySkipped ==
  \A q, r \in Req :
    RetryOf(q, r) =>
      /\ IssuedOps(r) \cap IngestionOps = {}
      /\ WrittenBy(r) = {}
      /\ PartiallyIngested(q)
      /\ stats[r].read =>
           /\ SawRecords(r)
           /\ pc[r] \in {"returned", "done"}
           /\ pc[r] = "done" => resp[r].status = 200 /\ resp[r].success
      /\ (pc[r] = "done" /\ ~ stats[r].read) =>
           /\ resp[r].status = 500
           /\ thrown[r].kind \in {"GitHub token contains non-ASCII characters",
                                  "describeIndexStats rejected"}

\* one of two chunks was written when the first ingestion failed, and the
\* retry was skipped by the guard and answered 200
C27_Witness ==
  \E q, r \in Req :
    /\ RetryOf(q, r)
    /\ chunks[q] = 2
    /\ Cardinality(WrittenBy(q)) = 1
    /\ SawRecords(r)
    /\ resp[r] = IngestionCompleted

-----------------------------------------------------------------------------
(* Properties of the two loops of the batched ingestion, checked under       *)
(* SpecBatch                                                                *)

\* the records of vectors[r] before position k (exclusive), as stored
StoredBefore(r, k) == Stored(repoName[r], SubSeq(vectors[r], 1, k))

\* C30: after the embedding loop there are as many embeddings as chunks, and
\* record idx carries chunk idx and embedding idx; the upsert loop sends the
\* records in order, each once, in ceil(n/100) batches of at most 100; with
\* no chunk no upsert call is made and success is reported.
C30_EveryRecordOnce ==
  \A r \in Req :
    /\ pc[r] = "vectors" => Len(embeddingsList[r]) = chunks[r]
    /\ pc[r] \in {"upsert", "upsertDelay"} =>
         LET n == Len(vectors[r])
             sent == (batchNum(r) - 1) * batchSize
         IN /\ n >= 1
            /\ \A k \in 1..n : /\ vectors[r][k].metadata = k - 1
                               /\ vectors[r][k].values = k - 1
            /\ \A k1, k2 \in 1..n : vectors[r][k1].id = vectors[r][k2].id => k1 = k2
            /\ i[r] = sent /\ sent < n
            /\ BatchesIssued(r, "upsert") = [b \in 1..batchNum(r) |-> b]
            /\ batchNum(r) <= (n + batchSize - 1) \div batchSize
            /\ pc[r] = "upsert" =>
                 /\ successfulBatches[r] = batchNum(r) - 1
                 /\ batch(r) = SubSeq(vectors[r], sent + 1,
                                      IF sent + 100 < n THEN sent + 100 ELSE n)
                 /\ StoredBefore(r, sent) \subseteq store
            /\ pc[r] = "upsertDelay" =>
                 /\ successfulBatches[r] = batchNum(r)
                 /\ sent + 100 < n
                 /\ StoredBefore(r, sent + 100) \subseteq store
    /\ (pc[r] \in {"returned", "done"} /\ thrown[r] = NoError
          /\ "load" \in IssuedOps(r)) =>
         /\ vectors[r] = <<>>
         /\ Len(BatchesIssued(r, "upsert")) = successfulBatches[r]
         /\ Len(BatchesIssued(r, "embedDocuments")) = 0 =>
              Len(BatchesIssued(r, "upsert")) = 0
         /\ Len(BatchesIssued(r, "embedDocuments")) > 0 =>
              /\ successfulBatches[r] >= 1
              /\ (\A q \in Req \ {r} : issued[q] = <<>>) =>
                   /\ RecordCount(store, repoName[r]) > (successfulBatches[r] - 1) * 100
                   /\ RecordCount(store, repoName[r]) <= successfulBatches[r] * 100
              /\ Len(BatchesIssued(r, "embedDocuments")) \in
                   {2 * successfulBatches[r] - 1, 2 * successfulBatches[r]}
         /\ pc[r] = "done" => resp[r].status = 200 /\ resp[r].success

\* 201 records were sent in three batches, the last of one record
C30_Witness ==
  \E r \in Req :
    /\ pc[r] = "done"
    /\ resp[r] = IngestionCompleted
    /\ successfulBatches[r] = 3
    /\ BatchesIssued(r, "upsert") = <<1, 2, 3>>
    /\ RecordCount(store, repoName[r]) = 2 * batchSize + 1

\* no chunk: no embedding call, no upsert call, and success
C30_WitnessEmpty ==
  \E r \in Req :
    /\ pc[r] = "done"
    /\ resp[r] = IngestionCompleted
    /\ IssuedOps(r) = {"load"}

-----------------------------------------------------------------------------
(* C28 *)

UserMessages(messages) == {k \in DOMAIN messages : messages[k].role = "user"}

AssistantMessages(messages) ==
  {k \in DOMAIN messages : messages[k].role = "assistant"} \ {1}

\* C28: a submit is ignored while isLoading is true or the trimmed input is
\* empty (so at most one request is running and every user message is a
\* non-empty trimmed text); each accepted submit appends exactly one user
\* message and one assistant message, the placeholder; and once its request
\* has finished, by success or by error, isLoading is false and no message
\* has isStreaming = true.
C28_SubmitAsStated ==
  chatUi.pc # "unmounted" =>
    /\ chatUi.inflight <= 1
    /\ chatUi.inflight = 1 => chatUi.isLoading
    /\ Cardinality(UserMessages(chatUi.messages)) = chatUi.fetches
    /\ \A k \in UserMessages(chatUi.messages) :
         /\ chatUi.messages[k].content # <<>>
         /\ trim(chatUi.messages[k].content) = chatUi.messages[k].content
    /\ chatUi.pc = "idle" =>
         /\ ~ chatUi.isLoading
         /\ \A k \in DOMAIN chatUi.messages : ~ chatUi.messages[k].isStreaming
         /\ Cardinality(AssistantMessages(chatUi.messages)) = chatUi.fetches
         /\ \A k \in UserMessages(chatUi.messages) :
              /\ k < Len(chatUi.messages)
              /\ chatUi.messages[k + 1].role = "assistant"

\* src/components/ChatInterface.tsx after two requests that were answered
\* with JSON values: both requests have finished, the placeholder of the
\* first is still streaming, and isLoading is left true, so that every
\* further submit is ignored
C28_Witness ==
  /\ chatUi.revision = "simulate"
  /\ chatUi.pc = "idle"
  /\ chatUi.fetches = 2
  /\ chatUi.inflight = 0
  /\ chatUi.isLoading
  /\ chatUi.streamingRef
  /\ \E k \in DOMAIN chatUi.messages : chatUi.messages[k].isStreaming
  /\ chatUi.messages[Len(chatUi.messages)].role = "user"

====
